---- MODULE Spec2Model ----
(***************************************************************************)
(* BM25Ranker (backend/app/utils/bm25_ranker.py): the relevance ranker of  *)
(* the job search.  One ranker object holds the fitted index in its fields *)
(* documents, doc_lengths, doc_freqs, idf and avg_doc_len; fit rebuilds    *)
(* them from a list of jobs, score reads them, rank is fit + score + sort. *)
(*                                                                         *)
(* Texts are sequences of one-character strings.  Scores are fixed-point   *)
(* integers: the natural logarithm is evaluated by its series at 10^-7 and *)
(* kept at 10^-5, the BM25 fraction is kept exact until the final division.*)
(*                                                                         *)
(* SpecObjects runs the same three methods statement by statement on the   *)
(* objects themselves (references, lists, dicts, the caller's jobs), for   *)
(* what a call leaves untouched.                                           *)
(***************************************************************************)
EXTENDS Integers, Sequences, FiniteSets, TLC

\* ------------------------------------------------------------------ bounds

\* Longest job list handed to fit / rank.
MaxJobs == 2

\* Longest text handed to _tokenize on its own.
MaxText == 3

\* Longest document, and so highest term frequency, where the loop of score
\* is run on its own.
MaxFreq == 4

\* --------------------------------------------------------- python helpers

Range(s) == {s[i] : i \in 1..Len(s)}

RECURSIVE Flatten(_)
\* list.extend over a sequence of sequences
Flatten(ss) == IF ss = <<>> THEN <<>> ELSE Head(ss) \o Flatten(Tail(ss))

RECURSIVE SumSeq(_)
\* sum(list)
SumSeq(s) == IF s = <<>> THEN 0 ELSE Head(s) + SumSeq(Tail(s))

RECURSIVE GCD(_, _)
GCD(a, b) == IF b = 0 THEN a ELSE GCD(b, a % b)

\* A Python number that is a quotient of two naturals, kept exact and reduced
\* (equal numbers have equal representations); 0 is 0/1.
Ratio(n, d) == IF n = 0 THEN [num |-> 0, den |-> 1]
               ELSE [num |-> n \div GCD(n, d), den |-> d \div GCD(n, d)]

\* n / d on two ints; den = 0 stands for the ZeroDivisionError Python raises
PyDiv(n, d) == IF d = 0 THEN [num |-> 0, den |-> 0] ELSE Ratio(n, d)

\* list[i] for a Python index i (0-based, negative counts from the end):
\* the 1-based position read, or 0 when Python raises IndexError.
PyPos(len, i) == IF 0 <= i /\ i < len THEN i + 1
                 ELSE IF i < 0 /\ -len <= i THEN len + i + 1
                 ELSE 0

\* ------------------------------------------------------------- characters

\* The characters of the model: ASCII letters and digits, the underscore,
\* blank and punctuation, and the non-ASCII characters \u00e9, \u00fc, \u00f1,
\* \u00df, \u00b2 with the capitals \u00c9, \u00dc.  Lowers[i] is Uppers[i].lower().
Lowers == <<"a","b","c","d","e","f","g","h","i","j","k","l","m",
            "n","o","p","q","r","s","t","u","v","w","x","y","z","é","ü">>
Uppers == <<"A","B","C","D","E","F","G","H","I","J","K","L","M",
            "N","O","P","Q","R","S","T","U","V","W","X","Y","Z","É","Ü">>
Digits == {"0","1","2","3","4","5","6","7","8","9"}

LowerSet == Range(Lowers)
UpperSet == Range(Uppers)

\* str.lower() on one character
ToLower == [c \in UpperSet |->
              Lowers[CHOOSE i \in 1..Len(Uppers) : Uppers[i] = c]]
LowerChar(c) == IF c \in UpperSet THEN ToLower[c] ELSE c

\* str.lower()
LowerText(s) == [i \in 1..Len(s) |-> LowerChar(s[i])]

\* the ASCII letters a-z
AsciiLowers == {Lowers[i] : i \in 1..26}

\* the class [a-z0-9] of the pattern
TokenChars == AsciiLowers \cup Digits
IsTokenChar(c) == c \in TokenChars

\* the class \w that decides \b, among the characters of the model: the
\* pattern is a str pattern, so \w is every character with isalnum(), ASCII
\* or not, and the underscore
WordChars == LowerSet \cup UpperSet \cup Digits \cup {"_", "ñ", "ß", "²"}
IsWordChar(c) == c \in WordChars

\* one maximal run of \w characters: a token when all of it is [a-z0-9]
EmitRun(run, clean) == IF run # <<>> /\ clean THEN <<run>> ELSE <<>>

RECURSIVE RunsFrom(_, _, _)
\* the matches among the maximal runs of \w characters of s, left to right:
\* starts and ends hold the first and the last position of every run left
RunsFrom(s, starts, ends) ==
    IF starts = {} THEN <<>>
    ELSE LET b == CHOOSE k \in starts : \A m \in starts : k <= m
             e == CHOOSE k \in ends : \A m \in ends : k <= m
         IN EmitRun(SubSeq(s, b, e), \A k \in b..e : IsTokenChar(s[k]))
            \o RunsFrom(s, starts \ {b}, ends \ {e})

\* re.findall(r'\b[a-z0-9]+\b', s): a match starts and ends at a \b, so it
\* is a whole maximal \w run, and only a run made of [a-z0-9] alone matches.
FindAll(s) ==
    LET word == {k \in 1..Len(s) : IsWordChar(s[k])}
    IN RunsFrom(s, {k \in word : (k - 1) \notin word},
                {k \in word : (k + 1) \notin word})

\* BM25Ranker._tokenize for a str ("" included: `if not text`)
Tokenize(text) == IF text = <<>> THEN <<>>
                  ELSE FindAll(LowerText(text))

\* BM25Ranker._tokenize for an argument that is None or a str
\* ([kind |-> "none"] or [kind |-> "val", val |-> the str])
TokenizeArg(text) == IF text.kind = "none" THEN <<>> ELSE Tokenize(text.val)

\* ---------------------------------------------------------------- records

\* The value of one attribute of a job: the attribute is missing ("absent",
\* reading it raises AttributeError), is None, or holds a value (a str for
\* the four text fields, a list of str for jd_keywords).
Absent == [kind |-> "absent", val |-> <<>>]
None == [kind |-> "none", val |-> <<>>]
Val(v) == [kind |-> "val", val |-> v]

Fields == <<"title", "company", "location", "jd_text", "jd_keywords">>

\* `if job.<field>:` for an attribute that exists
Truthy(f) == f.kind = "val" /\ f.val # <<>>

\* [x] * n
Repeat(x, n) == [i \in 1..n |-> x]

RECURSIVE JoinTight(_)
\* (mutant) "".join(parts): the parts run into each other
JoinTight(parts) == IF parts = <<>> THEN <<>>
                    ELSE parts[1] \o JoinTight(Tail(parts))

RECURSIVE Join(_)
\* " ".join(parts)
Join(parts) == IF parts = <<>> THEN <<>>
               ELSE IF Len(parts) = 1 THEN parts[1]
               ELSE parts[1] \o <<" ">> \o Join(Tail(parts))

\* (mutant) the parts list with the title taken once, like jd_text
DocumentPartsTitleOnce(job) ==
    (IF Truthy(job.title) THEN <<job.title.val>> ELSE <<>>)
    \o (IF Truthy(job.company) THEN Repeat(job.company.val, 2) ELSE <<>>)
    \o (IF Truthy(job.location) THEN Repeat(job.location.val, 2) ELSE <<>>)
    \o (IF Truthy(job.jd_text) THEN <<job.jd_text.val>> ELSE <<>>)
    \o (IF Truthy(job.jd_keywords)
        THEN Flatten([i \in 1..Len(job.jd_keywords.val) |->
                         Repeat(job.jd_keywords.val[i], 2)])
        ELSE <<>>)

\* the parts list _get_document_text builds
DocumentParts(job) ==
    (IF Truthy(job.title) THEN Repeat(job.title.val, 3) ELSE <<>>)
    \o (IF Truthy(job.company) THEN Repeat(job.company.val, 2) ELSE <<>>)
    \o (IF Truthy(job.location) THEN Repeat(job.location.val, 2) ELSE <<>>)
    \o (IF Truthy(job.jd_text) THEN <<job.jd_text.val>> ELSE <<>>)
    \o (IF Truthy(job.jd_keywords)
        THEN Flatten([i \in 1..Len(job.jd_keywords.val) |->
                         Repeat(job.jd_keywords.val[i], 2)])
        ELSE <<>>)

\* whether _get_document_text raises AttributeError on this job
Raises(job) == \E i \in 1..Len(Fields) : job[Fields[i]].kind = "absent"

\* BM25Ranker._get_document_text (for a job on which it does not raise)
GetDocumentText(job) == Join(DocumentParts(job))

\* ------------------------------------------------------------- arithmetic

\* fixed-point units: the series runs at 10^-7, scores are kept at 10^-5
LnScale == 10 * 1000 * 1000
ScoreScale == 100 * 1000

RECURSIVE AtanhSeries(_, _, _, _)
\* sum of t/k + t*z^2/(k+2) + ... for z = a/c, t in units of 1/LnScale
AtanhSeries(t, k, a, c) ==
    IF t = 0 THEN 0
    ELSE (t \div k) + AtanhSeries(((((t * a) \div c) * a) \div c), k + 2, a, c)

\* ln(p / q) for naturals p >= q > 0, in units of 1/ScoreScale, rounded:
\* ln(p/q) = 2 atanh((p - q)/(p + q))
LnUp(p, q) ==
    LET z == AtanhSeries((LnScale * (p - q)) \div (p + q), 1, p - q, p + q)
        per == LnScale \div ScoreScale
    IN (2 * z + per \div 2) \div per

\* math.log(p / q) for naturals p, q > 0
Ln(p, q) == IF p >= q THEN LnUp(p, q) ELSE 0 - LnUp(q, p)

\* the constructor's defaults k1 = 1.5 = K1Num/K1Den, b = 0.75 = BNum/BDen
K1Num == 3
K1Den == 2
BNum == 3
BDen == 4

\* ------------------------------------------------------------ the ranker

\* (mutant) Counter(set(doc_tokens)): every token of the document once
CounterOfSet(doc) == [t \in Range(doc) |-> 1]

\* collections.Counter(doc_tokens)
Counter(doc) ==
    [t \in Range(doc) |-> Cardinality({i \in 1..Len(doc) : doc[i] = t})]

\* fit, lines 83-84: the token list of one job
DocTokens(job) == Tokenize(GetDocumentText(job))

\* (mutant) the mean without the `if self.doc_lengths` guard of line 89
AvgDocLenUnguarded(lens) == PyDiv(SumSeq(lens), Len(lens))

\* (mutant) sum(self.doc_lengths) // len(self.doc_lengths)
AvgDocLenFloor(lens) ==
    IF lens # <<>> THEN Ratio(SumSeq(lens) \div Len(lens), 1)
    ELSE Ratio(0, 1)

\* fit, lines 89-92
AvgDocLen(lens) == IF lens # <<>> THEN PyDiv(SumSeq(lens), Len(lens))
                   ELSE Ratio(0, 1)

\* fit, line 107: how many of the term-frequency tables hold the term
\* (mutant) sum(freq[term] for freq in self.doc_freqs): the occurrences of
\* the term, not the documents that hold it
DocCountOccurrences(freqs, term) ==
    SumSeq([i \in 1..Len(freqs) |->
               IF term \in DOMAIN freqs[i] THEN freqs[i][term] ELSE 0])

DocCount(freqs, term) ==
    Cardinality({i \in 1..Len(freqs) : term \in DOMAIN freqs[i]})

\* (mutant) the formula of the comment of line 108, without the + 1.0:
\* log((N - n + 0.5) / (n + 0.5)) = log((2N - 2n + 1) / (2n + 1))
IdfValueClassic(num_docs, doc_count) ==
    Ln(2 * num_docs - 2 * doc_count + 1, 2 * doc_count + 1)

\* (mutant) the fraction upside down: log((n + 0.5) / (N - n + 0.5) + 1.0)
\* = log((2N + 2) / (2N - 2n + 1))
IdfValueSwapped(num_docs, doc_count) ==
    Ln(2 * num_docs + 2, 2 * num_docs - 2 * doc_count + 1)

\* fit, line 110: log((N - n + 0.5) / (n + 0.5) + 1.0) = log((2N+2)/(2n+1))
IdfValue(num_docs, doc_count) == Ln(2 * num_docs + 2, 2 * doc_count + 1)

\* (mutant) an idf cache: a term that already has an entry keeps it
IdfLoopKeepOld(old, all_terms, num_docs, freqs) ==
    [t \in (DOMAIN old) \cup all_terms |->
        IF t \in DOMAIN old THEN old[t]
        ELSE IdfValue(num_docs, DocCount(freqs, t))]

\* fit, lines 105-111: self.idf[term] = ... for every term of all_terms;
\* the dict is assigned into, never cleared
IdfLoop(old, all_terms, num_docs, freqs) ==
    [t \in (DOMAIN old) \cup all_terms |->
        IF t \in all_terms THEN IdfValue(num_docs, DocCount(freqs, t))
        ELSE old[t]]

\* fit, lines 96-101: the set of the tokens of all documents
AllTerms(docs) == UNION {Range(docs[i]) : i \in 1..Len(docs)}

\* index of the first job on which _get_document_text raises, 0 when none
FirstRaising(jobs) ==
    IF \E i \in 1..Len(jobs) : Raises(jobs[i])
    THEN CHOOSE i \in 1..Len(jobs) :
            Raises(jobs[i]) /\ \A j \in 1..(i - 1) : ~Raises(jobs[j])
    ELSE 0

RECURSIVE TokenizeAllPrepending(_)
\* (mutant) documents.insert(0, tokens): the last job's tokens come first
TokenizeAllPrepending(jobs) ==
    IF jobs = <<>> THEN <<>>
    ELSE TokenizeAllPrepending(Tail(jobs)) \o <<DocTokens(Head(jobs))>>

RECURSIVE TokenizeAll(_)
\* fit, lines 82-85: documents.append(tokens) for every job, in order
TokenizeAll(jobs) ==
    IF jobs = <<>> THEN <<>>
    ELSE <<DocTokens(Head(jobs))>> \o TokenizeAll(Tail(jobs))

RECURSIVE Lengths(_)
\* fit, line 86: doc_lengths.append(len(tokens))
Lengths(docs) ==
    IF docs = <<>> THEN <<>> ELSE <<Len(Head(docs))>> \o Lengths(Tail(docs))

RECURSIVE Counters(_)
\* fit, lines 98-100: doc_freqs.append(Counter(doc_tokens))
Counters(docs) ==
    IF docs = <<>> THEN <<>>
    ELSE <<Counter(Head(docs))>> \o Counters(Tail(docs))

\* (mutant) fit without the resets of lines 78-79: the documents of the
\* call are appended to those the ranker already holds
FitAppending(self, jobs) ==
    LET docs == self.documents \o TokenizeAll(jobs)
        lens == Lengths(docs)
        freqs == Counters(docs)
    IN [raised |-> FALSE,
        self |-> [documents |-> docs,
                  doc_lengths |-> lens,
                  avg_doc_len |-> AvgDocLen(lens),
                  doc_freqs |-> freqs,
                  idf |-> IdfLoop(self.idf, AllTerms(docs), Len(docs), freqs)]]

\* BM25Ranker.fit: the ranker after fit(jobs), and whether fit raised.
\* When job number `bad` raises (line 83), or the division of line 90 does,
\* lines 78-86 have replaced documents and doc_lengths by those of the jobs
\* read so far and nothing else has run.
Fit(self, jobs) ==
    LET bad == FirstRaising(jobs)
        n == IF bad = 0 THEN Len(jobs) ELSE bad - 1
        docs == TokenizeAll(SubSeq(jobs, 1, n))
        lens == Lengths(docs)
        freqs == Counters(docs)
        avg == AvgDocLen(lens)
    IN IF bad # 0 \/ avg.den = 0
       THEN [raised |-> TRUE,
             self |-> [self EXCEPT !.documents = docs, !.doc_lengths = lens]]
       ELSE [raised |-> FALSE,
             self |-> [documents |-> docs,
                       doc_lengths |-> lens,
                       avg_doc_len |-> avg,
                       doc_freqs |-> freqs,
                       idf |-> IdfLoop(self.idf, AllTerms(docs), Len(docs),
                                      freqs)]]

\* (mutant) the numerator without tf: idf * (k1 + 1) / (tf + k1 * (...))
TermScoreNoTf(idfv, tf, doc_len, avg) ==
    LET a == IF avg.num > 0 THEN avg.num ELSE 1
        r == IF avg.num > 0 THEN doc_len * avg.den ELSE 1
        num == (K1Num + K1Den) * BDen * a
        den == tf * K1Den * BDen * a + K1Num * ((BDen - BNum) * a + BNum * r)
    IN (idfv * num) \div den

\* score, lines 146-150, for one query term with tf > 0:
\*   idf * (tf * (k1 + 1)) / (tf + k1 * (1 - b + b * (doc_len / avg)))
\* with avg = avg.num/avg.den, and 1 in place of doc_len / avg when avg = 0
TermScore(idfv, tf, doc_len, avg) ==
    LET a == IF avg.num > 0 THEN avg.num ELSE 1
        r == IF avg.num > 0 THEN doc_len * avg.den ELSE 1
        num == tf * (K1Num + K1Den) * BDen * a
        den == tf * K1Den * BDen * a + K1Num * ((BDen - BNum) * a + BNum * r)
    IN (idfv * num) \div den

RECURSIVE SumTermsOnce(_, _, _, _, _)
\* (mutant) for term in set(query_terms): a repeated query term counts once
SumTermsOnce(terms, idfs, term_freqs, doc_len, avg) ==
    IF terms = <<>> THEN 0
    ELSE LET term == Head(terms)
             tf == IF term \in DOMAIN term_freqs THEN term_freqs[term] ELSE 0
             rest == SumTermsOnce(Tail(terms), idfs, term_freqs, doc_len, avg)
         IN IF term \notin DOMAIN idfs \/ tf = 0
               \/ term \in Range(Tail(terms))
            THEN rest
            ELSE TermScore(idfs[term], tf, doc_len, avg) + rest

RECURSIVE SumTerms(_, _, _, _, _)
\* score, lines 132-152: the loop over the query terms
SumTerms(terms, idfs, term_freqs, doc_len, avg) ==
    IF terms = <<>> THEN 0
    ELSE LET term == Head(terms)
             tf == IF term \in DOMAIN term_freqs THEN term_freqs[term] ELSE 0
             rest == SumTerms(Tail(terms), idfs, term_freqs, doc_len, avg)
         IN IF term \notin DOMAIN idfs \/ tf = 0 THEN rest
            ELSE TermScore(idfs[term], tf, doc_len, avg) + rest

\* score, line 124: the bounds check
OutOfRange(doc_index, n) == doc_index >= n

\* BM25Ranker.score: the value returned (units of 1/ScoreScale), or raised
\* when one of the three list reads of lines 128-130 raises IndexError
Score(self, query, doc_index) ==
    IF OutOfRange(doc_index, Len(self.documents))
    THEN [raised |-> FALSE, value |-> 0]
    ELSE LET d == PyPos(Len(self.documents), doc_index)
             l == PyPos(Len(self.doc_lengths), doc_index)
             f == PyPos(Len(self.doc_freqs), doc_index)
         IN IF d = 0 \/ l = 0 \/ f = 0
            THEN [raised |-> TRUE, value |-> 0]
            ELSE [raised |-> FALSE,
                  value |-> SumTerms(Tokenize(query), self.idf,
                                     self.doc_freqs[f], self.doc_lengths[l],
                                     self.avg_doc_len)]

RECURSIVE InsertDescBeforeTies(_, _)
\* (mutant) an unstable sort: e goes in front of the entries that tie with it
InsertDescBeforeTies(sorted, e) ==
    IF sorted = <<>> THEN <<e>>
    ELSE IF Head(sorted).score > e.score
         THEN <<Head(sorted)>> \o InsertDescBeforeTies(Tail(sorted), e)
         ELSE <<e>> \o sorted

RECURSIVE InsertDesc(_, _)
\* place e behind every entry whose score is >= its own
InsertDesc(sorted, e) ==
    IF sorted = <<>> THEN <<e>>
    ELSE IF Head(sorted).score >= e.score
         THEN <<Head(sorted)>> \o InsertDesc(Tail(sorted), e)
         ELSE <<e>> \o sorted

RECURSIVE InsertAsc(_, _)
InsertAsc(sorted, e) ==
    IF sorted = <<>> THEN <<e>>
    ELSE IF Head(sorted).score <= e.score
         THEN <<Head(sorted)>> \o InsertAsc(Tail(sorted), e)
         ELSE <<e>> \o sorted

RECURSIVE SortAsc(_)
SortAsc(scored) ==
    IF scored = <<>> THEN <<>>
    ELSE InsertAsc(SortAsc(SubSeq(scored, 1, Len(scored) - 1)),
                   scored[Len(scored)])

\* (mutant) sort(key=score) followed by reverse(): ties come out reversed
SortDescByReversal(scored) ==
    LET asc == SortAsc(scored)
    IN [i \in 1..Len(asc) |-> asc[Len(asc) + 1 - i]]

RECURSIVE SortDesc(_)
\* rank, line 176: list.sort(key=score, reverse=True); Python's sort is
\* stable, and stays so under reverse=True
SortDesc(scored) ==
    IF scored = <<>> THEN <<>>
    ELSE InsertDesc(SortDesc(SubSeq(scored, 1, Len(scored) - 1)),
                    scored[Len(scored)])

\* The top_k argument: None, or an int
NoTopK == [none |-> TRUE, k |-> 0]
TopK(k) == [none |-> FALSE, k |-> k]

\* (mutant) an off-by-one slice: scored_jobs[:top_k + 1]
TruncateOneMore(sorted, top_k) ==
    IF top_k.none \/ top_k.k = 0 THEN sorted
    ELSE IF top_k.k + 1 > 0
         THEN SubSeq(sorted, 1, IF top_k.k + 1 < Len(sorted) THEN top_k.k + 1
                                ELSE Len(sorted))
         ELSE SubSeq(sorted, 1, Len(sorted) + top_k.k + 1)

\* rank, lines 179-182: `if top_k: return scored_jobs[:top_k]`
Truncate(sorted, top_k) ==
    IF top_k.none \/ top_k.k = 0 THEN sorted
    ELSE IF top_k.k > 0
         THEN SubSeq(sorted, 1, IF top_k.k < Len(sorted) THEN top_k.k
                                ELSE Len(sorted))
         ELSE SubSeq(sorted, 1, Len(sorted) + top_k.k)

\* (mutant) enumerate(jobs, 1): every job is paired with the score of the
\* document after its own
ScoredJobsFromOne(self, jobs, query) ==
    [i \in 1..Len(jobs) |->
        [idx |-> i - 1, job |-> jobs[i],
         score |-> Score(self, query, i).value]]

\* rank, lines 170-173: (job, score) for every job; idx is the job's
\* position in the input list (the identity of the tuple's job reference)
ScoredJobs(self, jobs, query) ==
    [i \in 1..Len(jobs) |->
        [idx |-> i - 1, job |-> jobs[i],
         score |-> Score(self, query, i - 1).value]]

\* BM25Ranker.rank: the ranker afterwards, whether the call raised, and
\* the list returned
Rank(self, jobs, query, top_k) ==
    LET fitted == Fit(self, jobs)
        scored == ScoredJobs(fitted.self, jobs, query)
    IN IF fitted.raised
       THEN [raised |-> TRUE, self |-> fitted.self, ranking |-> <<>>]
       ELSE [raised |-> FALSE, self |-> fitted.self,
             ranking |-> Truncate(SortDesc(scored), top_k)]

\* ------------------------------------------------------------ the inputs

\* "A b" in the title, "a" in the description: tokens a b a b a b a
JobA == [title |-> Val(<<"A", " ", "b">>), company |-> None,
         location |-> Val(<<>>), jd_text |-> Val(<<"a">>),
         jd_keywords |-> None]

\* company "c", description "b, a", keyword "b": tokens c c b a b b
JobB == [title |-> None, company |-> Val(<<"c">>), location |-> None,
         jd_text |-> Val(<<"b", ",", " ", "a">>),
         jd_keywords |-> Val(<< <<"b">> >>)]

JobPool == {JobA, JobB}

\* every list of at most MaxJobs jobs of the pool
JobLists == UNION {[1..n -> JobPool] : n \in 0..MaxJobs}

\* "B c", "c", " " and ""
Queries == {<<"B", " ", "c">>, <<"c">>, <<" ">>, <<>>}

\* None, a negative top_k, 0, and every top_k up to the longest list
TopKs == {NoTopK} \cup {TopK(k) : k \in (0 - 1)..MaxJobs}

DocIndexes == (0 - MaxJobs - 1)..MaxJobs

\* One job per way its five attributes can be missing, None, empty or set
FieldValues(v) == {Absent, None, Val(<<>>), Val(v)}
FieldJobs ==
    {[title |-> t, company |-> c, location |-> l, jd_text |-> d,
      jd_keywords |-> k] :
        t \in FieldValues(<<"T", "i">>), c \in FieldValues(<<"c", "o">>),
        l \in FieldValues(<<"l">>), d \in FieldValues(<<"d", " ", "t">>),
        k \in FieldValues(<< <<"k">>, <<"t", "-", "k">> >>)}

\* ------------------------------------------------------------- the state

VARIABLES
    documents,    \* self.documents: the token list of each fitted job
    doc_freqs,    \* self.doc_freqs: the Counter of each fitted job
    idf,          \* self.idf: term -> inverse document frequency
    avg_doc_len,  \* self.avg_doc_len
    doc_lengths,  \* self.doc_lengths
    corpus,       \* the job list of the last fit that ran to its end
    last,         \* the call that ran last: its arguments and its outcome
    records,      \* the job list a caller holds (where the caller is modelled)
    docs_obj,     \* which list objects self.documents and self.doc_lengths
                  \* are bound to (lines 78-79 rebind both in one step): 0
                  \* the constructor's, t the ones thread t's fit created
    freqs_obj,    \* which list object self.doc_freqs is bound to, likewise
    set_order,    \* the order in which this process iterates a set of terms
    th,           \* the threads inside rank: their arguments, locals and place
    heap,         \* the objects of the process, where they are modelled one by
                  \* one: heap[r] is the object that reference r names
    caller        \* what the caller of that ranker holds: references to its
                  \* job list, its jobs and the list rank returned, and the
                  \* outcome of its last call

ranker == <<documents, doc_freqs, idf, avg_doc_len, doc_lengths>>
threads == <<docs_obj, freqs_obj, set_order, th>>
objects == <<heap, caller>>
vars == <<documents, doc_freqs, idf, avg_doc_len, doc_lengths, corpus, last,
          records, docs_obj, freqs_obj, set_order, th, heap, caller>>

\* the ranker object
Self == [documents |-> documents, doc_lengths |-> doc_lengths,
         avg_doc_len |-> avg_doc_len, doc_freqs |-> doc_freqs, idf |-> idf]

\* BM25Ranker.__init__
NewRanker == [documents |-> <<>>, doc_lengths |-> <<>>,
              avg_doc_len |-> Ratio(0, 1), doc_freqs |-> <<>>, idf |-> <<>>]

Store(self) ==
    /\ documents' = self.documents
    /\ doc_lengths' = self.doc_lengths
    /\ avg_doc_len' = self.avg_doc_len
    /\ doc_freqs' = self.doc_freqs
    /\ idf' = self.idf

NoCall == [op |-> "init", jobs |-> <<>>, query |-> <<>>, doc_index |-> 0,
           top_k |-> NoTopK, raised |-> FALSE, value |-> 0, ranking |-> <<>>,
           text |-> [kind |-> "none", val |-> <<>>], tokens |-> <<>>,
           args |-> [idfv |-> 0, tf |-> 0, doc_len |-> 0,
                     avg |-> [num |-> 0, den |-> 1]]]

NoCorpus == [built |-> FALSE, jobs |-> <<>>]
Built(jobs) == [built |-> TRUE, jobs |-> jobs]

InitRanker ==
    /\ documents = NewRanker.documents
    /\ doc_lengths = NewRanker.doc_lengths
    /\ avg_doc_len = NewRanker.avg_doc_len
    /\ doc_freqs = NewRanker.doc_freqs
    /\ idf = NewRanker.idf
    /\ corpus = NoCorpus
    /\ last = NoCall

NoThreads == docs_obj = 0 /\ freqs_obj = 0 /\ set_order = <<>> /\ th = <<>>

\* no score kept for comparison
NoPin == [set |-> FALSE, query |-> <<>>, doc_index |-> 0, raised |-> FALSE,
          value |-> 0]

\* a caller that holds nothing
NoCaller == [input |-> 0, pool |-> <<>>, ranked |-> 0,
             got |-> [raised |-> FALSE, value |-> 0],
             pinned |-> NoPin, others |-> 0]

NoObjects == heap = <<>> /\ caller = NoCaller

Init == InitRanker /\ records = <<>> /\ NoThreads /\ NoObjects

\* a caller runs ranker.fit(jobs)
FitCall(jobs) ==
    \E r \in {Fit(Self, jobs)} :
       /\ Store(r.self)
       /\ corpus' = IF r.raised THEN corpus ELSE Built(jobs)
       /\ last' = [NoCall EXCEPT !.op = "fit", !.jobs = jobs,
                                 !.raised = r.raised]
       /\ UNCHANGED <<records, threads, objects>>

\* a caller runs ranker.score(query, doc_index)
ScoreCall(query, doc_index) ==
    \E r \in {Score(Self, query, doc_index)} :
       /\ UNCHANGED <<ranker, corpus, records, threads, objects>>
       /\ last' = [NoCall EXCEPT !.op = "score", !.query = query,
                                 !.doc_index = doc_index,
                                 !.raised = r.raised, !.value = r.value]

\* a caller runs ranker.rank(jobs, query, top_k)
RankCall(jobs, query, top_k) ==
    \E r \in {Rank(Self, jobs, query, top_k)} :
       /\ Store(r.self)
       /\ corpus' = IF r.raised THEN corpus ELSE Built(jobs)
       /\ last' = [NoCall EXCEPT !.op = "rank", !.jobs = jobs,
                                 !.query = query, !.top_k = top_k,
                                 !.raised = r.raised, !.ranking = r.ranking]
       /\ UNCHANGED <<records, threads, objects>>

\* One ranker, called by one caller at a time with any arguments
Next == \/ \E jobs \in JobLists : FitCall(jobs)
        \/ \E query \in Queries, i \in DocIndexes : ScoreCall(query, i)
        \/ \E jobs \in JobLists, query \in Queries, k \in TopKs :
              RankCall(jobs, query, k)

Spec == Init /\ [][Next]_vars

\* A caller that holds one job, with any of its attributes missing, None or
\* empty, and fits and ranks it
InitFields == /\ InitRanker /\ NoThreads /\ NoObjects
              /\ records \in {<<job>> : job \in FieldJobs}

NextFields == \/ FitCall(records)
              \/ \E query \in {<<"t">>, <<>>} : RankCall(records, query, NoTopK)

SpecFields == InitFields /\ [][NextFields]_vars

\* A caller that holds one job whose attributes share the tokens a and b:
\* "a" / "B a" in the title, "a" / "b" as company, "" / "b" / "a,b" as
\* location, "a" / "a b a" as description, ["a"] / ["b", "a b"] as keywords
WeightJobs ==
    {[title |-> t, company |-> c, location |-> l, jd_text |-> d,
      jd_keywords |-> k] :
        t \in {None, Val(<<"a">>), Val(<<"B", " ", "a">>)},
        c \in {None, Val(<<"a">>), Val(<<"b">>)},
        l \in {Val(<<>>), Val(<<"b">>), Val(<<"a", ",", "b">>)},
        d \in {None, Val(<<"a">>), Val(<<"a", " ", "b", " ", "a">>)},
        k \in {None, Val(<< <<"a">> >>),
               Val(<< <<"b">>, <<"a", " ", "b">> >>)}}

InitWeights == /\ InitRanker /\ NoThreads /\ NoObjects
               /\ records \in {<<job>> : job \in WeightJobs}

NextWeights == \/ FitCall(records)
               \/ \E query \in {<<"a">>, <<"b", " ", "a">>} :
                     RankCall(records, query, NoTopK)

SpecWeights == InitWeights /\ [][NextWeights]_vars

\* ------------------------------------------- title match and text match

\* a job with no text at all, and one whose only token is b
JobNone == [title |-> None, company |-> None, location |-> None,
            jd_text |-> None, jd_keywords |-> None]
JobOnlyB == [JobNone EXCEPT !.jd_text = Val(<<"b">>)]

\* the jobs a pair is made from, and the terms asked for: b, which JobA,
\* JobB and JobOnlyB hold already, and t, which none of them holds
BaseJobs == {JobA, JobB, JobNone, JobOnlyB}
PairTerms == {<<"b">>, <<"t">>}

\* the text f with the word `term` added at its end
WithWord(f, term) == IF Truthy(f) THEN Val(f.val \o <<" ">> \o term)
                     ELSE Val(term)

\* job with the term added to its title / added once to its jd_text
TitleMatch(job, term) == [job EXCEPT !.title = WithWord(job.title, term)]
TextMatch(job, term) == [job EXCEPT !.jd_text = WithWord(job.jd_text, term)]

\* every list of fewer than MaxJobs jobs of the pool
OtherJobs == UNION {[1..n -> JobPool] : n \in 0..(MaxJobs - 1)}

\* the corpora with such a pair: the two jobs in either order, then others
PairLists ==
    UNION {{<<TitleMatch(job, term), TextMatch(job, term)>> \o rest,
            <<TextMatch(job, term), TitleMatch(job, term)>> \o rest} :
              job \in BaseJobs, term \in PairTerms, rest \in OtherJobs}

InitPairs == /\ InitRanker /\ NoThreads /\ NoObjects
             /\ records \in PairLists

\* the caller fits the corpus, scores its documents and ranks it
NextPairs ==
    \/ FitCall(records)
    \/ \E term \in PairTerms, i \in 0..(Len(records) - 1) : ScoreCall(term, i)
    \/ \E term \in PairTerms : RankCall(records, term, NoTopK)

SpecPairs == InitPairs /\ [][NextPairs]_vars

\* ------------------------------------------------- the loop of score alone

\* the one term of the query
Term == <<"t">>

\* term_freqs of a document that holds the term tf times (a Counter has no
\* entry for a token the document lacks)
TermFreqs(tf) == [x \in (IF tf > 0 THEN {Term} ELSE {}) |-> tf]

\* score, lines 132-152, run for the query "t" on a document of doc_len
\* tokens that holds the term tf times, with the idf and the average given
TermCall(idfv, tf, doc_len, avg) ==
    /\ last' = [NoCall EXCEPT
                   !.op = "term",
                   !.args = [idfv |-> idfv, tf |-> tf, doc_len |-> doc_len,
                             avg |-> avg],
                   !.value = SumTerms(<<Term>>, [x \in {Term} |-> idfv],
                                      TermFreqs(tf), doc_len, avg)]
    /\ UNCHANGED <<ranker, corpus, records, threads, objects>>

\* the values fit can leave for a document of a corpus of num_docs documents
\* of at most MaxFreq tokens each: the term is in doc_count of them, the
\* lengths sum to total, the document has doc_len tokens and tf of the term
NextTerm ==
    \E num_docs \in 1..MaxJobs, doc_len \in 1..MaxFreq :
        \E doc_count \in 1..num_docs, tf \in 0..doc_len,
           total \in doc_len..(doc_len + (num_docs - 1) * MaxFreq) :
            TermCall(IdfValue(num_docs, doc_count), tf, doc_len,
                     PyDiv(total, num_docs))

SpecTerm == Init /\ [][NextTerm]_vars

\* ----------------------------------------------------- the search example

\* {title: "Senior Python Engineer", company: "Acme",
\*  jd_text: "We need Python and AWS skills"}, the other columns None
JobPython ==
    [title |-> Val(<<"S", "e", "n", "i", "o", "r", " ", "P", "y", "t", "h",
                     "o", "n", " ", "E", "n", "g", "i", "n", "e", "e", "r">>),
     company |-> Val(<<"A", "c", "m", "e">>),
     location |-> None,
     jd_text |-> Val(<<"W", "e", " ", "n", "e", "e", "d", " ", "P", "y", "t",
                       "h", "o", "n", " ", "a", "n", "d", " ", "A", "W", "S",
                       " ", "s", "k", "i", "l", "l", "s">>),
     jd_keywords |-> None]

\* {title: "Barista", company: "Cafe Co", jd_text: "Serve coffee"}
JobBarista ==
    [title |-> Val(<<"B", "a", "r", "i", "s", "t", "a">>),
     company |-> Val(<<"C", "a", "f", "e", " ", "C", "o">>),
     location |-> None,
     jd_text |-> Val(<<"S", "e", "r", "v", "e", " ", "c", "o", "f", "f", "e",
                       "e">>),
     jd_keywords |-> None]

\* every list of at most MaxJobs of the two
SearchLists == UNION {[1..n -> {JobPython, JobBarista}] : n \in 0..MaxJobs}

\* "python", "Coffee, AWS" and "java"
SearchQueries ==
    {<<"p", "y", "t", "h", "o", "n">>,
     <<"C", "o", "f", "f", "e", "e", ",", " ", "A", "W", "S">>,
     <<"j", "a", "v", "a">>}

\* One ranker that fits and ranks these lists, whole or cut to one entry
NextSearch ==
    \/ \E jobs \in SearchLists : FitCall(jobs)
    \/ \E jobs \in SearchLists, query \in SearchQueries,
          k \in {NoTopK, TopK(1)} : RankCall(jobs, query, k)

SpecSearch == Init /\ [][NextSearch]_vars

\* ------------------------------------------------------- a fit that aborts

\* a job without the attribute title: reading it raises AttributeError
JobBroken == [JobB EXCEPT !.title = Absent]

\* every list of at most MaxJobs jobs of JobA, JobB and the broken job
AbortLists == UNION {[1..n -> {JobA, JobB, JobBroken}] : n \in 0..MaxJobs}

\* One ranker that fits these lists and scores "b" on what it holds
NextAbort ==
    \/ \E jobs \in AbortLists : FitCall(jobs)
    \/ \E i \in 0..(MaxJobs - 1) : ScoreCall(<<"b">>, i)

SpecAbort == Init /\ [][NextAbort]_vars

\* ------------------------------------------------- queries that repeat terms

\* "c", "c c", "b c", "c b", "b c b c", "b b c", "b c b", "a c a", "c a a"
RepeatQueries ==
    {<<"c">>, <<"c", " ", "c">>, <<"b", " ", "c">>, <<"c", " ", "b">>,
     <<"b", " ", "c", " ", "b", " ", "c">>, <<"b", " ", "b", " ", "c">>,
     <<"b", " ", "c", " ", "b">>, <<"a", " ", "c", " ", "a">>,
     <<"c", " ", "a", " ", "a">>}

\* One ranker that fits the lists of the pool and scores these queries on
\* the documents it holds
NextQuery ==
    \/ \E jobs \in JobLists : FitCall(jobs)
    \/ \E query \in RepeatQueries, i \in 0..(MaxJobs - 1) :
          ScoreCall(query, i)

SpecQuery == Init /\ [][NextQuery]_vars

\* ------------------------------------------------ corpora of empty documents

\* every list of at most MaxJobs jobs of JobA, JobB and the job whose
\* attributes are all None, which gives a document without tokens
AverageLists == UNION {[1..n -> {JobA, JobB, JobNone}] : n \in 0..MaxJobs}

\* One ranker that fits these lists and scores "b" on the documents it holds
NextAverage ==
    \/ \E jobs \in AverageLists : FitCall(jobs)
    \/ \E i \in 0..(MaxJobs - 1) : ScoreCall(<<"b">>, i)

SpecAverage == Init /\ [][NextAverage]_vars

\* ------------------------------------------------------ the tokenizer alone

\* a letter, a capital, a digit, the underscore, a non-ASCII letter, a
\* non-ASCII capital, a non-ASCII digit, a blank and a punctuation mark
TextChars == {"a", "B", "1", "_", "é", "Ü", "²", " ", "-"}

\* None, and every str of at most MaxText of these characters
Texts == {None} \cup UNION {{Val(t) : t \in [1..n -> TextChars]} : n \in 0..MaxText}

\* a caller runs ranker._tokenize(text)
TokenizeCall(text) ==
    /\ last' = [NoCall EXCEPT !.op = "tokenize", !.text = text,
                              !.tokens = TokenizeArg(text)]
    /\ UNCHANGED <<ranker, corpus, records, threads, objects>>

NextTokenize == \E text \in Texts : TokenizeCall(text)

SpecTokenize == Init /\ [][NextTokenize]_vars

\* ------------------------------------------------- objects and references

\* fit, score and rank statement by statement on the objects of the process.
\* A reference is the position of its object in heap; a list holds
\* references, ints, strs or (job, score) tuples, a dict maps strs to
\* numbers, a Job and the ranker hold their attributes.  An attribute of the
\* ranker that is a list or a dict holds a reference, so two names for one
\* object (term_freqs and self.doc_freqs[doc_index]) see each other's writes.
ListObj(holds, items) == [kind |-> "list", holds |-> holds, items |-> items]
DictObj(map) == [kind |-> "dict", map |-> map]
JobObj(job) == [kind |-> "Job", attrs |-> job]
RankerObj(attrs) == [kind |-> "BM25Ranker", attrs |-> attrs]

\* Rest of the value: `value` is computed once and Rest is applied to it,
\* as a statement hands the heap it leaves to the statements after it
Bind(value, Rest(_)) == CHOOSE out \in {Rest(v) : v \in {value}} : TRUE

\* a new object; its reference is Newest of the heap returned
Alloc(h, obj) == Append(h, obj)
Newest(h) == Len(h)

\* r.name = value
SetAttr(h, r, name, value) == [h EXCEPT ![r].attrs[name] = value]

\* r.append(item)
ListAppend(h, r, item) == [h EXCEPT ![r].items = Append(@, item)]

\* r[key] = value
DictStore(h, r, key, value) ==
    [h EXCEPT ![r].map = [k \in (DOMAIN h[r].map) \cup {key} |->
                             IF k = key THEN value ELSE h[r].map[k]]]

\* (mutant) r.setdefault(key, default): a key the dict does not hold is
\* stored with the default
DictSetDefault(h, r, key, default) ==
    IF key \in DOMAIN h[r].map
    THEN [heap |-> h, value |-> h[r].map[key]]
    ELSE [heap |-> DictStore(h, r, key, default), value |-> default]

\* r.get(key, default): the heap after the call and the value returned
DictGet(h, r, key, default) ==
    [heap |-> h,
     value |-> IF key \in DOMAIN h[r].map THEN h[r].map[key] ELSE default]

\* BM25Ranker(): the ranker is object 1 of a heap that holds nothing else
SelfRef == 1
ObjNew ==
    Bind(<<RankerObj([k1 |-> Ratio(K1Num, K1Den), b |-> Ratio(BNum, BDen),
                      documents |-> 0, doc_freqs |-> 0, idf |-> 0,
                      avg_doc_len |-> Ratio(0, 1), doc_lengths |-> 0])>>,
         LAMBDA h0 :
    Bind(SetAttr(Alloc(h0, ListObj("ref", <<>>)), SelfRef, "documents",
                 Len(h0) + 1), LAMBDA h1 :
    Bind(SetAttr(Alloc(h1, ListObj("ref", <<>>)), SelfRef, "doc_freqs",
                 Len(h1) + 1), LAMBDA h2 :
    Bind(SetAttr(Alloc(h2, DictObj(<<>>)), SelfRef, "idf",
                 Len(h2) + 1), LAMBDA h3 :
         SetAttr(Alloc(h3, ListObj("int", <<>>)), SelfRef, "doc_lengths",
                 Len(h3) + 1)))))

RECURSIVE ObjFitJobs(_, _, _, _)
\* fit, lines 82-86, from the i-th job of the list on
ObjFitJobs(h, self, jobs, i) ==
    IF i > Len(h[jobs].items) THEN [heap |-> h, raised |-> FALSE]
    ELSE IF Raises(h[h[jobs].items[i]].attrs)
    THEN [heap |-> h, raised |-> TRUE]
    ELSE
    Bind(Alloc(h, ListObj("str", DocTokens(h[h[jobs].items[i]].attrs))),
         LAMBDA h1 :
    Bind(ListAppend(h1, h1[self].attrs.documents, Newest(h1)), LAMBDA h2 :
    Bind(ListAppend(h2, h2[self].attrs.doc_lengths,
                    Len(h2[Newest(h1)].items)), LAMBDA h3 :
         ObjFitJobs(h3, self, jobs, i + 1))))

RECURSIVE ObjFitFreqs(_, _, _)
\* fit, lines 98-100, from the i-th document on
ObjFitFreqs(h, self, i) ==
    IF i > Len(h[h[self].attrs.documents].items) THEN h
    ELSE
    Bind(Alloc(h, DictObj(Counter(
                   h[h[h[self].attrs.documents].items[i]].items))),
         LAMBDA h1 :
    Bind(ListAppend(h1, h1[self].attrs.doc_freqs, Newest(h1)), LAMBDA h2 :
         ObjFitFreqs(h2, self, i + 1)))

RECURSIVE ObjFitIdf(_, _, _, _)
\* fit, lines 105-111, for the terms of all_terms not yet visited
ObjFitIdf(h, self, todo, num_docs) ==
    IF todo = {} THEN h
    ELSE LET term == CHOOSE t \in todo : TRUE
             freqs == h[h[self].attrs.doc_freqs].items
             doc_count == Cardinality({k \in 1..Len(freqs) :
                                          term \in DOMAIN h[freqs[k]].map})
             idf_value == IdfValue(num_docs, doc_count)
         IN Bind(DictStore(h, h[self].attrs.idf, term, idf_value),
                 LAMBDA h1 : ObjFitIdf(h1, self, todo \ {term}, num_docs))

\* fit, lines 89-111, on the heap the loop of lines 82-86 left
ObjFitIndex(h, self) ==
    IF AvgDocLen(h[h[self].attrs.doc_lengths].items).den = 0
    THEN [heap |-> h, raised |-> TRUE]
    ELSE
    Bind(SetAttr(h, self, "avg_doc_len",
                 AvgDocLen(h[h[self].attrs.doc_lengths].items)), LAMBDA h1 :
    Bind(SetAttr(Alloc(h1, ListObj("ref", <<>>)), self, "doc_freqs",
                 Len(h1) + 1), LAMBDA h2 :
    Bind(ObjFitFreqs(h2, self, 1), LAMBDA h3 :
         LET docs == h3[h3[self].attrs.documents].items
             all_terms == UNION {Range(h3[docs[k]].items) :
                                    k \in 1..Len(docs)}
         IN [heap |-> ObjFitIdf(h3, self, all_terms, Len(docs)),
             raised |-> FALSE])))

\* BM25Ranker.fit on the ranker `self` and the list `jobs`: the heap when
\* the call ends and whether it raised
ObjFit(h, self, jobs) ==
    Bind(SetAttr(Alloc(h, ListObj("ref", <<>>)), self, "documents",
                 Len(h) + 1), LAMBDA h1 :
    Bind(SetAttr(Alloc(h1, ListObj("int", <<>>)), self, "doc_lengths",
                 Len(h1) + 1), LAMBDA h2 :
    Bind(ObjFitJobs(h2, self, jobs, 1), LAMBDA read :
         IF read.raised THEN read ELSE ObjFitIndex(read.heap, self))))

\* score, lines 146-150, with k1 and b as the ranker holds them
ObjTermScore(k1, b, idfv, tf, doc_len, avg) ==
    LET a == IF avg.num > 0 THEN avg.num ELSE 1
        r == IF avg.num > 0 THEN doc_len * avg.den ELSE 1
        num == tf * (k1.num + k1.den) * b.den * a
        den == tf * k1.den * b.den * a
               + k1.num * ((b.den - b.num) * a + b.num * r)
    IN (idfv * num) \div den

RECURSIVE ObjScoreTerms(_, _, _, _)
\* score, lines 134-152: the loop from the first of `terms` on; f holds the
\* locals self, doc_len and term_freqs, score is the sum so far
ObjScoreTerms(h, f, terms, score) ==
    IF terms = <<>> THEN [heap |-> h, raised |-> FALSE, value |-> score]
    ELSE IF Head(terms) \notin DOMAIN h[h[f.self].attrs.idf].map
    THEN ObjScoreTerms(h, f, Tail(terms), score)
    ELSE
    Bind(DictGet(h, f.term_freqs, Head(terms), 0), LAMBDA tf :
         IF tf.value = 0
         THEN ObjScoreTerms(tf.heap, f, Tail(terms), score)
         ELSE
         Bind(tf.heap[f.self].attrs, LAMBDA me :
         Bind(score + ObjTermScore(me.k1, me.b,
                                   tf.heap[me.idf].map[Head(terms)],
                                   tf.value, f.doc_len, me.avg_doc_len),
              LAMBDA sum : ObjScoreTerms(tf.heap, f, Tail(terms), sum))))

\* BM25Ranker.score on the ranker `self`: the heap when the call ends,
\* whether it raised, and the value returned
ObjScore(h, self, query, doc_index) ==
    LET docs == h[h[self].attrs.documents].items
        lens == h[h[self].attrs.doc_lengths].items
        freqs == h[h[self].attrs.doc_freqs].items
        d == PyPos(Len(docs), doc_index)
        l == PyPos(Len(lens), doc_index)
        f == PyPos(Len(freqs), doc_index)
    IN IF OutOfRange(doc_index, Len(docs))
       THEN [heap |-> h, raised |-> FALSE, value |-> 0]
       ELSE IF d = 0 \/ l = 0 \/ f = 0
       THEN [heap |-> h, raised |-> TRUE, value |-> 0]
       ELSE Bind([self |-> self, doc_tokens |-> docs[d],
                  doc_len |-> lens[l], term_freqs |-> freqs[f]],
                 LAMBDA locals :
            Bind(Tokenize(query), LAMBDA query_terms :
                 ObjScoreTerms(h, locals, query_terms, 0)))

RECURSIVE ObjRankJobs(_, _, _, _)
\* rank, lines 171-173, from the job at Python index idx on; f holds the
\* locals self, jobs and scored_jobs
ObjRankJobs(h, f, query, idx) ==
    IF idx >= Len(h[f.jobs].items) THEN [heap |-> h, raised |-> FALSE]
    ELSE
    Bind(ObjScore(h, f.self, query, idx), LAMBDA got :
         IF got.raised THEN [heap |-> got.heap, raised |-> TRUE]
         ELSE
         Bind(ListAppend(got.heap, f.scored_jobs,
                         [job |-> h[f.jobs].items[idx + 1],
                          score |-> got.value]), LAMBDA h1 :
              ObjRankJobs(h1, f, query, idx + 1)))

\* (mutant) the ranking written back into the list given:
\* jobs[:] = [job for job, _ in scored_jobs] after the sort
SortScoredAndInput(h, f) ==
    Bind(SortDesc(h[f.scored_jobs].items), LAMBDA sorted :
         [h EXCEPT ![f.scored_jobs].items = sorted,
                   ![f.jobs].items = [i \in 1..Len(sorted) |->
                                         sorted[i].job]])

\* rank, line 176: scored_jobs.sort(key=..., reverse=True), in place
SortScored(h, f) == [h EXCEPT ![f.scored_jobs].items = SortDesc(@)]

\* rank, lines 170-182, on the heap fit left; f holds the locals self, jobs
\* and scored_jobs
ObjRankScored(h, f, query, top_k) ==
    Bind(ObjRankJobs(h, f, query, 0), LAMBDA scored :
         IF scored.raised
         THEN [heap |-> scored.heap, raised |-> TRUE, returned |-> 0]
         ELSE
         Bind(SortScored(scored.heap, f), LAMBDA h1 :
              IF ~top_k.none /\ top_k.k # 0
              THEN [heap |-> Alloc(h1, ListObj("tuple",
                                Truncate(h1[f.scored_jobs].items, top_k))),
                    raised |-> FALSE, returned |-> Newest(h1) + 1]
              ELSE [heap |-> h1, raised |-> FALSE,
                    returned |-> f.scored_jobs]))

\* BM25Ranker.rank on the ranker `self` and the list `jobs`: the heap when
\* the call ends, whether it raised, and the reference returned
ObjRank(h, self, jobs, query, top_k) ==
    Bind(ObjFit(h, self, jobs), LAMBDA fitted :
         IF fitted.raised
         THEN [heap |-> fitted.heap, raised |-> TRUE, returned |-> 0]
         ELSE
         Bind(Alloc(fitted.heap, ListObj("tuple", <<>>)), LAMBDA h1 :
              ObjRankScored(h1, [self |-> self, jobs |-> jobs,
                                 scored_jobs |-> Newest(h1)],
                            query, top_k)))

\* the sequence without the later copies of an element
Dedup(s) ==
    LET firsts == {i \in 1..Len(s) : \A j \in 1..(i - 1) : s[j] # s[i]}
    IN [k \in 1..Cardinality(firsts) |->
           s[CHOOSE i \in firsts :
                Cardinality({j \in firsts : j <= i}) = k]]

Position(order, r) ==
    IF r = 0 THEN 0 ELSE CHOOSE i \in 1..Len(order) : order[i] = r

\* the objects still referenced when a call has returned: the ranker, its
\* idf, what the caller c holds, then the lists of the ranker and their
\* elements, then the list rank returned
Reached(h, c) ==
    LET me == h[SelfRef].attrs
    IN Dedup(<<SelfRef, me.idf, c.input>> \o c.pool
             \o <<me.documents, me.doc_lengths, me.doc_freqs>>
             \o h[me.documents].items \o h[me.doc_freqs].items
             \o (IF c.ranked = 0 THEN <<>> ELSE <<c.ranked>>))

\* the object with its references renumbered to their position in order
Renumbered(obj, order) ==
    CASE obj.kind = "BM25Ranker" ->
           [obj EXCEPT !.attrs.documents = Position(order, @),
                       !.attrs.doc_lengths = Position(order, @),
                       !.attrs.doc_freqs = Position(order, @),
                       !.attrs.idf = Position(order, @)]
      [] obj.kind = "list" /\ obj.holds = "ref" ->
           [obj EXCEPT !.items = [i \in 1..Len(obj.items) |->
                                     Position(order, obj.items[i])]]
      [] obj.kind = "list" /\ obj.holds = "tuple" ->
           [obj EXCEPT !.items =
               [i \in 1..Len(obj.items) |->
                   [job |-> Position(order, obj.items[i].job),
                    score |-> obj.items[i].score]]]
      [] OTHER -> obj

\* The heap and the caller once the objects nothing refers to are freed:
\* those left are numbered in the order of Reached, so that two heaps with
\* the same objects and the same references between them are equal.
Kept(h, c) ==
    Bind(Reached(h, c), LAMBDA order :
         [heap |-> [i \in 1..Len(order) |-> Renumbered(h[order[i]], order)],
          caller |-> [c EXCEPT !.input = Position(order, @),
                               !.pool = [i \in 1..Len(c.pool) |->
                                            Position(order, c.pool[i])],
                               !.ranked = Position(order, @)]])

\* the job list the reference names, as the values of its jobs' attributes
JobsOf(h, jobs) ==
    [i \in 1..Len(h[jobs].items) |-> h[h[jobs].items[i]].attrs]

\* the ranker of the heap as the values its attributes lead to
SelfView(h) ==
    LET me == h[SelfRef].attrs
        docs == h[me.documents].items
        freqs == h[me.doc_freqs].items
    IN [documents |-> [i \in 1..Len(docs) |-> h[docs[i]].items],
        doc_lengths |-> h[me.doc_lengths].items,
        avg_doc_len |-> me.avg_doc_len,
        doc_freqs |-> [i \in 1..Len(freqs) |-> h[freqs[i]].map],
        idf |-> h[me.idf].map]

\* the jobs the caller of this specification owns
ObjectPool == <<JobA, JobB, JobNone>>

\* how many score calls with other arguments are counted after a kept one
MaxOthers == 2

\* the lists the caller may hold, as positions in ObjectPool: no job, one
\* job, two jobs in both orders, one job twice, a job whose document is
\* empty, alone and behind another
ObjectLists == {<<>>, <<1>>, <<1, 2>>, <<2, 1>>, <<2, 2>>, <<3>>, <<1, 3>>}

\* "B c" and "c"; the last document, the first, the second, and one too far;
\* no top_k and a top_k of 1
ObjectQueries == {<<"B", " ", "c">>, <<"c">>}
ObjectIndexes == {0 - 1, 0, 1, 2}
ObjectTopKs == {NoTopK, TopK(1)}

\* A new ranker and a caller that owns the jobs of ObjectPool and one list
\* of them
InitObjects ==
    /\ InitRanker
    /\ records = <<>>
    /\ NoThreads
    /\ \E items \in ObjectLists, h \in {ObjNew} :
          \E k \in {Kept(Alloc(h \o [i \in 1..Len(ObjectPool) |->
                                        JobObj(ObjectPool[i])],
                               ListObj("ref", [i \in 1..Len(items) |->
                                                  Len(h) + items[i]])),
                         [NoCaller EXCEPT
                             !.input = Len(h) + Len(ObjectPool) + 1,
                             !.pool = [i \in 1..Len(ObjectPool) |->
                                          Len(h) + i]])} :
             /\ heap = k.heap
             /\ caller = k.caller

\* the caller runs ranker.fit(jobs) on its list
ObjFitCall ==
    \E jobs \in {JobsOf(heap, caller.input)},
       r \in {ObjFit(heap, SelfRef, caller.input)} :
       \E v \in {Fit(Self, jobs)},
          k \in {Kept(r.heap, [caller EXCEPT
                                  !.got = [raised |-> r.raised, value |-> 0],
                                  !.pinned = NoPin, !.others = 0])} :
          /\ heap' = k.heap
          /\ caller' = k.caller
          /\ Store(v.self)
          /\ corpus' = IF v.raised THEN corpus ELSE Built(jobs)
          /\ last' = [NoCall EXCEPT !.op = "fit", !.jobs = jobs,
                                    !.raised = v.raised]
          /\ UNCHANGED <<records, threads>>

\* The caller runs ranker.score(query, doc_index); with `keep` it keeps the
\* arguments and the outcome to compare a later call with, otherwise it
\* counts the call when its arguments are not the kept ones.
ObjScoreCall(query, doc_index, keep) ==
    \E r \in {ObjScore(heap, SelfRef, query, doc_index)},
       v \in {Score(Self, query, doc_index)} :
       \E k \in {Kept(r.heap,
                      [caller EXCEPT
                          !.got = [raised |-> r.raised, value |-> r.value],
                          !.pinned = IF keep
                                     THEN [set |-> TRUE, query |-> query,
                                           doc_index |-> doc_index,
                                           raised |-> r.raised,
                                           value |-> r.value]
                                     ELSE @,
                          !.others =
                             IF keep THEN 0
                             ELSE IF /\ caller.pinned.set
                                     /\ <<query, doc_index>>
                                        # <<caller.pinned.query,
                                            caller.pinned.doc_index>>
                                     /\ @ < MaxOthers
                                  THEN @ + 1
                                  ELSE @])} :
          /\ heap' = k.heap
          /\ caller' = k.caller
          /\ last' = [NoCall EXCEPT !.op = "score", !.query = query,
                                    !.doc_index = doc_index,
                                    !.raised = v.raised, !.value = v.value]
          /\ UNCHANGED <<ranker, corpus, records, threads>>

\* the caller runs ranker.rank(jobs, query, top_k) on its list and, when the
\* call returns, holds the list returned in place of the one it held
ObjRankCall(query, top_k) ==
    \E jobs \in {JobsOf(heap, caller.input)},
       r \in {ObjRank(heap, SelfRef, caller.input, query, top_k)} :
       \E v \in {Rank(Self, jobs, query, top_k)},
          k \in {Kept(r.heap,
                      [caller EXCEPT
                          !.ranked = IF r.raised THEN @ ELSE r.returned,
                          !.got = [raised |-> r.raised, value |-> 0],
                          !.pinned = NoPin, !.others = 0])} :
          /\ heap' = k.heap
          /\ caller' = k.caller
          /\ Store(v.self)
          /\ corpus' = IF v.raised THEN corpus ELSE Built(jobs)
          /\ last' = [NoCall EXCEPT !.op = "rank", !.jobs = jobs,
                                    !.query = query, !.top_k = top_k,
                                    !.raised = v.raised,
                                    !.ranking = v.ranking]
          /\ UNCHANGED <<records, threads>>

\* One ranker and one caller, both as objects; the variables of the ranker
\* follow Fit, Score and Rank, the heap follows the statements
NextObjects ==
    \/ ObjFitCall
    \/ \E query \in ObjectQueries, i \in ObjectIndexes, keep \in BOOLEAN :
          ObjScoreCall(query, i, keep)
    \/ \E query \in ObjectQueries, k \in ObjectTopKs : ObjRankCall(query, k)

SpecObjects == InitObjects /\ [][NextObjects]_vars

\* ------------------------------------------------- two callers, one ranker

\* Two threads call rank on the same ranker.  The interpreter can switch
\* threads when a call returns and at the back-edge of a loop, so a step is
\* the code between two such points that touches the ranker: every read of an
\* attribute of self sees the object the attribute is bound to at that step.
Threads == {1, 2}

\* every thread asks for "B c"
ThreadQueries == {<<"B", " ", "c">>}

\* the locals of a thread that hold nothing at its place
NoLocals ==
    [i |-> 0, len_obj |-> 0, total |-> 0, count |-> 0,
     it_obj |-> 0, it_pos |-> 0, it_items |-> <<>>, all_terms |-> {},
     num_docs |-> 0, todo |-> {}, term |-> <<>>, fq_obj |-> 0, fq_pos |-> 0,
     fq_items |-> <<>>, doc_count |-> 0, doc_len |-> 0, term_freqs |-> <<>>,
     qpos |-> 0, acc |-> 0]

\* a thread that is about to call rank(jobs, query)
Entering(jobs, query) ==
    [pc |-> "start", jobs |-> jobs, query |-> query, loc |-> NoLocals,
     scored |-> <<>>, ranking |-> <<>>, error |-> "none"]

\* the jobs the callers rank: one whose document is the token b and one
\* whose document is the token c
JobOnlyC == [JobNone EXCEPT !.jd_text = Val(<<"c">>)]
ThreadJobs == {JobOnlyB, JobOnlyC}

\* the lists the second caller ranks: at most one job; the first caller
\* ranks one of these or the two jobs together
ShortLists == {<<>>} \cup {<<job>> : job \in ThreadJobs}
LongLists == ShortLists \cup {<<JobOnlyB, JobOnlyC>>}

\* the orders in which `for term in all_terms` can yield the terms of the
\* documents: the hash seed of the process fixes one for the whole run, the
\* same for every set the terms were added to in the same order, and two
\* callers whose sets hold both terms have walked the same list
ThreadTerms == UNION {Range(DocTokens(job)) : job \in ThreadJobs}
SetOrders == {order \in [1..Cardinality(ThreadTerms) -> ThreadTerms] :
                 Range(order) = ThreadTerms}

\* the term of the non-empty set todo that set_order puts first
NextInSet(todo) ==
    set_order[CHOOSE k \in DOMAIN set_order :
                 /\ set_order[k] \in todo
                 /\ \A j \in 1..(k - 1) : set_order[j] \notin todo]

InitThreads ==
    /\ InitRanker
    /\ records = <<>>
    /\ docs_obj = 0
    /\ freqs_obj = 0
    /\ set_order \in SetOrders
    /\ NoObjects
    /\ \E first \in LongLists, second \in ShortLists, query \in ThreadQueries :
          th = [t \in Threads |->
                  Entering(IF t = 1 THEN first ELSE second, query)]

\* the list thread t's `for doc_tokens in self.documents` walks: the object
\* it took at line 98, which grows while it is still bound to self.documents
\* and is frozen once another fit has rebound the attribute
Walked(t) == IF th[t].loc.it_obj = docs_obj THEN documents
             ELSE th[t].loc.it_items

\* the list the generator of line 107 of thread t walks: the object
\* self.doc_freqs was bound to when the generator was made
FreqsWalked(t) == IF th[t].loc.fq_obj = freqs_obj THEN doc_freqs
                  ELSE th[t].loc.fq_items

\* thread t at place pc with the locals loc
At(t, pc, loc) == [th EXCEPT ![t].pc = pc, ![t].loc = loc]

\* thread t once the exception error has left rank, which catches nothing
Raised(t, error) ==
    [th EXCEPT ![t].pc = "raised", ![t].loc = NoLocals, ![t].error = error]

\* thread u once self.documents is rebound: a loop of line 98 that walks the
\* list bound so far keeps that list as it is now
DocsRebound(u) ==
    IF th[u].pc \in {"freqs", "freqs_append"} /\ th[u].loc.it_obj = docs_obj
    THEN [th[u] EXCEPT !.loc.it_items = documents]
    ELSE th[u]

\* thread u once self.doc_freqs is rebound: a generator of line 107 that
\* walks the list bound so far keeps that list as it is now
FreqsRebound(u) ==
    IF th[u].pc = "idf_count" /\ th[u].loc.fq_obj = freqs_obj
    THEN [th[u] EXCEPT !.loc.fq_items = doc_freqs]
    ELSE th[u]

\* fit, lines 78-79: self.documents = []; self.doc_lengths = [].  With no
\* jobs nothing is called before set() of line 96, so lines 89-96 run in the
\* same step: self.avg_doc_len = 0; self.doc_freqs = []
FitReset(t) ==
    /\ th[t].pc = "start"
    /\ documents' = <<>>
    /\ doc_lengths' = <<>>
    /\ docs_obj' = t
    /\ IF th[t].jobs # <<>>
       THEN /\ th' = [u \in Threads |->
                        IF u = t
                        THEN [th[t] EXCEPT !.pc = "tokenize", !.loc.i = 1]
                        ELSE DocsRebound(u)]
            /\ UNCHANGED <<doc_freqs, avg_doc_len, freqs_obj>>
       ELSE /\ th' = [u \in Threads |->
                        IF u = t THEN [th[t] EXCEPT !.pc = "freqs_iter"]
                        ELSE IF th[u].pc = "idf_count" THEN FreqsRebound(u)
                        ELSE DocsRebound(u)]
            /\ avg_doc_len' = Ratio(0, 1)
            /\ doc_freqs' = <<>>
            /\ freqs_obj' = t
    /\ UNCHANGED <<idf, corpus, last, records, set_order, objects>>

\* fit, lines 82-85: one iteration of `for job in jobs` up to
\* self.documents.append(tokens)
FitTokenize(t) ==
    /\ th[t].pc = "tokenize"
    /\ th[t].loc.i <= Len(th[t].jobs)
    /\ documents' = Append(documents, DocTokens(th[t].jobs[th[t].loc.i]))
    /\ th' = [th EXCEPT ![t].pc = "lengths"]
    /\ UNCHANGED <<doc_lengths, doc_freqs, idf, avg_doc_len, corpus, last,
                   records, docs_obj, freqs_obj, set_order, objects>>

\* fit, line 86, up to the return of len(tokens): the list self.doc_lengths
\* is bound to is taken (with its append method) before len is called
FitLengths(t) ==
    /\ th[t].pc = "lengths"
    /\ th' = [th EXCEPT ![t].pc = "append_len", ![t].loc.len_obj = docs_obj]
    /\ UNCHANGED <<ranker, corpus, last, records, docs_obj, freqs_obj,
                   set_order, objects>>

\* fit, line 86, after len(tokens) has returned: append to the list taken
\* before the call; once another fit has rebound self.doc_lengths that list
\* is no longer the ranker's and the length is lost
FitAppendLength(t) ==
    /\ th[t].pc = "append_len"
    /\ doc_lengths' = IF th[t].loc.len_obj = docs_obj
                      THEN Append(doc_lengths,
                                  Len(DocTokens(th[t].jobs[th[t].loc.i])))
                      ELSE doc_lengths
    /\ th' = [th EXCEPT ![t].pc = "tokenize", ![t].loc.i = @ + 1,
                        ![t].loc.len_obj = 0]
    /\ UNCHANGED <<documents, doc_freqs, idf, avg_doc_len, corpus, last,
                   records, docs_obj, freqs_obj, set_order, objects>>

\* fit, lines 89-96, once the loop over the jobs has ended: the test
\* `if self.doc_lengths` and, when the list is not empty, sum(...); with an
\* empty list self.avg_doc_len = 0 and self.doc_freqs = [] follow before
\* anything is called
FitSum(t) ==
    /\ th[t].pc = "tokenize"
    /\ th[t].loc.i > Len(th[t].jobs)
    /\ IF doc_lengths # <<>>
       THEN /\ th' = At(t, "avg_len",
                        [NoLocals EXCEPT !.total = SumSeq(doc_lengths)])
            /\ UNCHANGED <<avg_doc_len, doc_freqs, freqs_obj>>
       ELSE /\ th' = [u \in Threads |->
                        IF u = t
                        THEN [th[t] EXCEPT !.pc = "freqs_iter",
                                           !.loc = NoLocals]
                        ELSE FreqsRebound(u)]
            /\ avg_doc_len' = Ratio(0, 1)
            /\ doc_freqs' = <<>>
            /\ freqs_obj' = t
    /\ UNCHANGED <<documents, doc_lengths, idf, corpus, last, records,
                   docs_obj, set_order, objects>>

\* fit, line 90: len(self.doc_lengths), read after sum() has returned
FitLen(t) ==
    /\ th[t].pc = "avg_len"
    /\ th' = [th EXCEPT ![t].pc = "avg_store",
                        ![t].loc.count = Len(doc_lengths)]
    /\ UNCHANGED <<ranker, corpus, last, records, docs_obj, freqs_obj,
                   set_order, objects>>

\* fit, lines 90-96: the division and the store of self.avg_doc_len, then
\* self.doc_freqs = []; all_terms = set().  A length of 0 raises
\* ZeroDivisionError and ends the call
FitAverage(t) ==
    /\ th[t].pc = "avg_store"
    /\ \E avg \in {PyDiv(th[t].loc.total, th[t].loc.count)} :
          IF avg.den = 0
          THEN /\ th' = Raised(t, "ZeroDivisionError")
               /\ UNCHANGED <<avg_doc_len, doc_freqs, freqs_obj>>
          ELSE /\ th' = [u \in Threads |->
                           IF u = t
                           THEN [th[t] EXCEPT !.pc = "freqs_iter",
                                              !.loc = NoLocals]
                           ELSE FreqsRebound(u)]
               /\ avg_doc_len' = avg
               /\ doc_freqs' = <<>>
               /\ freqs_obj' = t
    /\ UNCHANGED <<documents, doc_lengths, idf, corpus, last, records,
                   docs_obj, set_order, objects>>

\* thread t between two terms of the loop of line 105, with the terms todo
\* left; with none left fit returns and rank starts to score
IdfLoopAt(t, todo, num_docs) ==
    IF todo = {} THEN At(t, "score", NoLocals)
    ELSE At(t, "idf", [NoLocals EXCEPT !.todo = todo, !.num_docs = num_docs])

\* fit, lines 98-99, after set() has returned: the for loop takes the list
\* self.documents is bound to and its first element, and Counter(doc_tokens)
\* is made; with an empty list the loop ends and line 104 reads
\* len(self.documents)
FitFreqsIter(t) ==
    /\ th[t].pc = "freqs_iter"
    /\ th' = IF documents # <<>>
             THEN [th EXCEPT ![t].pc = "freqs_append",
                             ![t].loc.it_obj = docs_obj,
                             ![t].loc.it_pos = 2]
             ELSE IdfLoopAt(t, {}, 0)
    /\ UNCHANGED <<ranker, corpus, last, records, docs_obj, freqs_obj,
                   set_order, objects>>

\* fit, lines 98-99: `for doc_tokens in self.documents` takes the next
\* element and Counter(doc_tokens) is made
FitFreqsNext(t) ==
    /\ th[t].pc = "freqs"
    /\ th[t].loc.it_pos <= Len(Walked(t))
    /\ th' = [th EXCEPT ![t].pc = "freqs_append", ![t].loc.it_pos = @ + 1]
    /\ UNCHANGED <<ranker, corpus, last, records, docs_obj, freqs_obj,
                   set_order, objects>>

\* fit, lines 100-101: self.doc_freqs.append(term_counts);
\* all_terms.update(doc_tokens), for the element taken last
FitFreqs(t) ==
    /\ th[t].pc = "freqs_append"
    /\ \E doc_tokens \in {Walked(t)[th[t].loc.it_pos - 1]} :
          /\ doc_freqs' = Append(doc_freqs, Counter(doc_tokens))
          /\ th' = [th EXCEPT ![t].pc = "freqs",
                              ![t].loc.all_terms = @ \cup Range(doc_tokens)]
    /\ UNCHANGED <<documents, doc_lengths, idf, avg_doc_len, corpus, last,
                   records, docs_obj, freqs_obj, set_order, objects>>

\* fit, line 104, once the loop over the documents has ended
FitNumDocs(t) ==
    /\ th[t].pc = "freqs"
    /\ th[t].loc.it_pos > Len(Walked(t))
    /\ th' = IdfLoopAt(t, th[t].loc.all_terms, Len(documents))
    /\ UNCHANGED <<ranker, corpus, last, records, docs_obj, freqs_obj,
                   set_order, objects>>

\* fit, lines 105-107: `for term in all_terms` takes the next term, in the
\* order of the process, and the generator is made over the list
\* self.doc_freqs is bound to; it has read nothing yet
FitIdfTerm(t) ==
    /\ th[t].pc = "idf"
    /\ \E term \in {NextInSet(th[t].loc.todo)} :
          th' = [th EXCEPT ![t].pc = "idf_count",
                           ![t].loc.todo = @ \ {term},
                           ![t].loc.term = term,
                           ![t].loc.fq_obj = freqs_obj,
                           ![t].loc.fq_pos = 0,
                           ![t].loc.doc_count = 0]
    /\ UNCHANGED <<ranker, corpus, last, records, docs_obj, freqs_obj,
                   set_order, objects>>

\* fit, line 107: sum(...) resumes the generator, which reads the next
\* element df of the list it walks and counts it when `term in df`
FitDocRead(t) ==
    /\ th[t].pc = "idf_count"
    /\ th[t].loc.fq_pos < Len(FreqsWalked(t))
    /\ \E df \in {FreqsWalked(t)[th[t].loc.fq_pos + 1]} :
          th' = [th EXCEPT ![t].loc.fq_pos = @ + 1,
                           ![t].loc.doc_count =
                               @ + DocCount(<<df>>, th[t].loc.term)]
    /\ UNCHANGED <<ranker, corpus, last, records, docs_obj, freqs_obj,
                   set_order, objects>>

\* fit, line 107: the generator finds no further element in the list it
\* walks and sum(...) returns
FitDocCount(t) ==
    /\ th[t].pc = "idf_count"
    /\ th[t].loc.fq_pos >= Len(FreqsWalked(t))
    /\ th' = [th EXCEPT ![t].pc = "idf_store",
                        ![t].loc.fq_obj = 0, ![t].loc.fq_pos = 0,
                        ![t].loc.fq_items = <<>>]
    /\ UNCHANGED <<ranker, corpus, last, records, docs_obj, freqs_obj,
                   set_order, objects>>

\* fit, lines 110-111: self.idf[term] = idf_value, after math.log returned
FitIdf(t) ==
    /\ th[t].pc = "idf_store"
    /\ idf' = [x \in (DOMAIN idf) \cup {th[t].loc.term} |->
                 IF x = th[t].loc.term
                 THEN IdfValue(th[t].loc.num_docs, th[t].loc.doc_count)
                 ELSE idf[x]]
    /\ th' = IdfLoopAt(t, th[t].loc.todo, th[t].loc.num_docs)
    /\ UNCHANGED <<documents, doc_lengths, doc_freqs, avg_doc_len, corpus,
                   last, records, docs_obj, freqs_obj, set_order, objects>>

\* rank, line 172: scored_jobs.append((job, score)) for the job at loc.i
Scored(t, score) ==
    [th EXCEPT ![t].pc = "score",
               ![t].loc = [NoLocals EXCEPT !.i = th[t].loc.i + 1],
               ![t].scored = Append(@, [idx |-> th[t].loc.i,
                                        job |-> th[t].jobs[th[t].loc.i + 1],
                                        score |-> score])]

\* score, lines 132-139, for thread t with the locals loc: the query terms
\* from loc.qpos on are tested (`term not in self.idf`, term_freqs.get) up
\* to the first that is skipped, which ends an iteration, or that is not;
\* after the last term score returns the sum
ScoreLoopAt(t, loc) ==
    LET terms == Tokenize(th[t].query)
    IN IF loc.qpos > Len(terms) THEN Scored(t, loc.acc)
       ELSE IF terms[loc.qpos] \notin DOMAIN idf
               \/ terms[loc.qpos] \notin DOMAIN loc.term_freqs
            THEN IF loc.qpos = Len(terms) THEN Scored(t, loc.acc)
                 ELSE At(t, "score_term", [loc EXCEPT !.qpos = @ + 1])
            ELSE At(t, "score_add", loc)

\* rank, line 171, and score, line 124: the next job of enumerate(jobs) and
\* the bounds test on len(self.documents)
RankScore(t) ==
    /\ th[t].pc = "score"
    /\ th[t].loc.i < Len(th[t].jobs)
    /\ th' = IF OutOfRange(th[t].loc.i, Len(documents)) THEN Scored(t, 0)
             ELSE [th EXCEPT ![t].pc = "score_read"]
    /\ UNCHANGED <<ranker, corpus, last, records, docs_obj, freqs_obj,
                   set_order, objects>>

\* score, lines 128-139, after _tokenize has returned: the three list reads,
\* where an IndexError ends the call, and the test of the first query term
ScoreRead(t) ==
    /\ th[t].pc = "score_read"
    /\ \E p \in {th[t].loc.i + 1} :
          th' = IF p > Len(documents) \/ p > Len(doc_lengths)
                   \/ p > Len(doc_freqs)
                THEN Raised(t, "IndexError")
                ELSE ScoreLoopAt(t, [NoLocals EXCEPT
                                        !.i = th[t].loc.i,
                                        !.doc_len = doc_lengths[p],
                                        !.term_freqs = doc_freqs[p],
                                        !.qpos = 1])
    /\ UNCHANGED <<ranker, corpus, last, records, docs_obj, freqs_obj,
                   set_order, objects>>

\* score, lines 132-139: the test of the query term at qpos, after the
\* iteration before it has ended
ScoreTerm(t) ==
    /\ th[t].pc = "score_term"
    /\ th' = ScoreLoopAt(t, th[t].loc)
    /\ UNCHANGED <<ranker, corpus, last, records, docs_obj, freqs_obj,
                   set_order, objects>>

\* thread t after an iteration of the loop of score has ended
ScoreNext(t, loc) ==
    IF loc.qpos > Len(Tokenize(th[t].query)) THEN Scored(t, loc.acc)
    ELSE At(t, "score_term", loc)

\* score, lines 146-150: self.idf[term] and self.avg_doc_len are read and
\* the term's part is added to the score, which ends the iteration
ScoreAdd(t) ==
    /\ th[t].pc = "score_add"
    /\ \E term \in {Tokenize(th[t].query)[th[t].loc.qpos]} :
          th' = ScoreNext(t,
                   [th[t].loc EXCEPT
                       !.qpos = @ + 1,
                       !.acc = @ + TermScore(idf[term],
                                             th[t].loc.term_freqs[term],
                                             th[t].loc.doc_len, avg_doc_len)])
    /\ UNCHANGED <<ranker, corpus, last, records, docs_obj, freqs_obj,
                   set_order, objects>>

\* rank, lines 176-182 (top_k is None): sort and return
RankReturn(t) ==
    /\ th[t].pc = "score"
    /\ th[t].loc.i >= Len(th[t].jobs)
    /\ th' = [th EXCEPT ![t].pc = "done", ![t].loc = NoLocals,
                        ![t].ranking = Truncate(SortDesc(th[t].scored), NoTopK)]
    /\ UNCHANGED <<ranker, corpus, last, records, docs_obj, freqs_obj,
                   set_order, objects>>

NextThreads ==
    \E t \in Threads :
        \/ FitReset(t)
        \/ FitTokenize(t)
        \/ FitLengths(t)
        \/ FitAppendLength(t)
        \/ FitSum(t)
        \/ FitLen(t)
        \/ FitAverage(t)
        \/ FitFreqsIter(t)
        \/ FitFreqsNext(t)
        \/ FitFreqs(t)
        \/ FitNumDocs(t)
        \/ FitIdfTerm(t)
        \/ FitDocRead(t)
        \/ FitDocCount(t)
        \/ FitIdf(t)
        \/ RankScore(t)
        \/ ScoreRead(t)
        \/ ScoreTerm(t)
        \/ ScoreAdd(t)
        \/ RankReturn(t)

SpecThreads == InitThreads /\ [][NextThreads]_vars

\* ------------------------------------------------------------ the claims

\* the distinct tokens of the documents the index holds
CorpusTerms == AllTerms(documents)

\* the tokens of the query of the last call
QueryTerms == Range(Tokenize(last.query))

Returned(op) == last.op = op /\ ~last.raised

\* C1: the list rank returns is ordered by score, highest first, and two
\* entries with equal scores keep the order their jobs have in the input.
C1_RankSortedStable ==
    Returned("rank") =>
        \A i, j \in 1..Len(last.ranking) :
            i < j => \/ last.ranking[i].score > last.ranking[j].score
                     \/ /\ last.ranking[i].score = last.ranking[j].score
                        /\ last.ranking[i].idx < last.ranking[j].idx

\* two jobs that match the query with the same score, returned in input order
C1_Witness ==
    /\ Returned("rank")
    /\ Len(last.ranking) = 2
    /\ last.ranking[1].score > 0
    /\ last.ranking[1].score = last.ranking[2].score

\* the whole sorted ranking of the jobs and query of the last rank call
FullRanking == Rank(Self, last.jobs, last.query, NoTopK).ranking

\* C2: with 0 < top_k < N rank returns the first top_k entries of the full
\* sorted ranking, none of the entries left out scoring higher than one kept;
\* with top_k None or >= N it returns all N entries.
C2_TopK ==
    Returned("rank") =>
        LET n == Len(last.jobs)
            k == last.top_k
        IN /\ (~k.none /\ 0 < k.k /\ k.k < n) =>
                 /\ Len(last.ranking) = k.k
                 /\ last.ranking = SubSeq(FullRanking, 1, k.k)
                 /\ \A i \in 1..k.k, j \in (k.k + 1)..n :
                        FullRanking[j].score <= last.ranking[i].score
           /\ (k.none \/ k.k >= n) =>
                 /\ Len(last.ranking) = n
                 /\ last.ranking = FullRanking

\* top_k = 1 of two jobs keeps the second job, which outscores the first
C2_Witness ==
    /\ Returned("rank")
    /\ Len(last.jobs) = 2
    /\ last.top_k = TopK(1)
    /\ Len(last.ranking) = 1
    /\ last.ranking[1].idx = 1
    /\ last.ranking[1].score > 0

\* C3: on a fitted corpus, score returns 0.0 and does not raise for every
\* doc_index that is out of bounds, doc_index >= N or doc_index < 0.
C3_OutOfBoundsScoresZero ==
    (/\ last.op = "score"
     /\ corpus.built
     /\ (last.doc_index >= Len(documents) \/ last.doc_index < 0))
    => (~last.raised /\ last.value = 0)

\* C5: whatever calls came before on the ranker, rank returns what the same
\* call returns on a ranker that was just constructed.
C5_RankHistoryIndependent ==
    last.op = "rank" =>
        LET fresh == Rank(NewRanker, last.jobs, last.query, last.top_k)
        IN /\ last.raised = fresh.raised
           /\ last.ranking = fresh.ranking

\* a rank with a positive score, on a ranker whose idf still holds a query
\* term of an earlier corpus that the ranked jobs do not contain
C5_Witness ==
    /\ Returned("rank")
    /\ last.ranking # <<>>
    /\ last.ranking[1].score > 0
    /\ \E t \in QueryTerms : t \in DOMAIN idf /\ t \notin CorpusTerms

\* C6: after a completed fit the keys of idf are exactly the distinct tokens
\* of the documents of that fit.
C6_IdfKeysAreCorpusTerms ==
    (last.op \in {"fit", "rank"} /\ ~last.raised) => DOMAIN idf = CorpusTerms

\* C7: fitting an empty list leaves no documents, an average length of 0 and
\* an empty idf, and every score call that follows returns 0.0.
C7_EmptyFit ==
    /\ (Returned("fit") /\ last.jobs = <<>>) =>
          /\ documents = <<>>
          /\ avg_doc_len = Ratio(0, 1)
          /\ CorpusTerms = {}
          /\ DOMAIN idf = {}
    /\ (last.op = "score" /\ corpus.built /\ corpus.jobs = <<>>) =>
          (~last.raised /\ last.value = 0)

\* C8: when no token of the query occurs in any document (the query may be
\* empty or blank), rank returns every job with score 0, in input order.
C8_ZeroMatch ==
    (/\ Returned("rank")
     /\ last.top_k.none
     /\ QueryTerms \cap CorpusTerms = {})
    => last.ranking = [i \in 1..Len(last.jobs) |->
                          [idx |-> i - 1, job |-> last.jobs[i], score |-> 0]]

\* two jobs ranked for a query whose only token the idf knows from an earlier
\* corpus, and neither job contains
C8_Witness ==
    /\ Returned("rank")
    /\ last.top_k.none
    /\ Len(last.ranking) = 2
    /\ QueryTerms # {}
    /\ QueryTerms \subseteq DOMAIN idf
    /\ QueryTerms \cap CorpusTerms = {}

\* C9: rank of the empty list returns the empty list and does not raise,
\* for every query, every top_k and every earlier state of the ranker.
C9_RankEmpty ==
    (last.op = "rank" /\ last.jobs = <<>>) =>
        (~last.raised /\ last.ranking = <<>>)

\* the empty list ranked with a negative top_k on a ranker fitted before
C9_Witness ==
    /\ Returned("rank")
    /\ last.jobs = <<>>
    /\ last.top_k = TopK(0 - 1)
    /\ last.query # <<>>
    /\ DOMAIN idf # {}

\* a job with nothing but the one attribute f of job
OnlyField(job, f) ==
    [g \in Range(Fields) |-> IF g = f /\ job[g].kind # "absent" THEN job[g]
                             ELSE None]

\* the tokens the five attributes of job contribute, each as if job held
\* nothing else, a missing, None or empty attribute contributing none
FieldTokens(job) ==
    Flatten([i \in 1..Len(Fields) |-> DocTokens(OnlyField(job, Fields[i]))])

\* C10: when attributes of a job are missing, None or empty, fit and rank
\* complete without error and the job's document holds exactly the tokens of
\* its other attributes.
C10_MissingFieldsSkipped ==
    (last.op \in {"fit", "rank"} /\ Len(last.jobs) = 1) =>
        /\ ~last.raised
        /\ documents = <<FieldTokens(last.jobs[1])>>

RECURSIVE AlnumRuns(_, _)
\* the maximal runs of characters of [a-z0-9] in s, left to right, every
\* other character separating two runs
AlnumRuns(s, run) ==
    IF s = <<>> THEN (IF run # <<>> THEN <<run>> ELSE <<>>)
    ELSE IF IsTokenChar(Head(s))
         THEN AlnumRuns(Tail(s), Append(run, Head(s)))
         ELSE (IF run # <<>> THEN <<run>> ELSE <<>>)
              \o AlnumRuns(Tail(s), <<>>)

\* C11: _tokenize returns, left to right, exactly the maximal runs of
\* [a-z0-9] of the lowercased text, every other character (underscore and
\* non-ASCII letters included) being a separator; None and "" give [].
C11_TokenizeMaximalRuns ==
    last.op = "tokenize" =>
        /\ ~last.raised
        /\ last.tokens = IF last.text.kind = "none" THEN <<>>
                         ELSE AlnumRuns(LowerText(last.text.val), <<>>)

\* tokens(field): the tokens of a text attribute, none when it is None
TokensOf(f) == IF f.kind = "val" THEN Tokenize(f.val) ELSE <<>>

\* the tokens of every keyword twice, keyword after keyword
KeywordTokens(f) ==
    IF f.kind = "val"
    THEN Flatten([i \in 1..Len(f.val) |->
                     Tokenize(f.val[i]) \o Tokenize(f.val[i])])
    ELSE <<>>

\* how often token t occurs in the token list seq
Occurrences(seq, t) == Cardinality({i \in 1..Len(seq) : seq[i] = t})

\* the projection the claim C12 states for one job
Projection(job) ==
    TokensOf(job.title) \o TokensOf(job.title) \o TokensOf(job.title)
    \o TokensOf(job.company) \o TokensOf(job.company)
    \o TokensOf(job.location) \o TokensOf(job.location)
    \o TokensOf(job.jd_text)
    \o KeywordTokens(job.jd_keywords)

\* C12: the token list stored for a job is tokens(title) three times, then
\* tokens(company) twice, tokens(location) twice, tokens(jd_text) once and
\* tokens(keyword) twice for each keyword in order; so a token's frequency is
\* 3x its title count + 2x company + 2x location + jd_text + 2x keyword count.
C12_ProjectionWeights ==
    (last.op \in {"fit", "rank"} /\ ~last.raised /\ Len(last.jobs) = 1) =>
        LET job == last.jobs[1]
            kws == IF job.jd_keywords.kind = "val" THEN job.jd_keywords.val
                   ELSE <<>>
        IN /\ documents = <<Projection(job)>>
           /\ \A t \in {<<"a">>, <<"b">>} \cup Range(documents[1]) :
                 (IF t \in DOMAIN doc_freqs[1] THEN doc_freqs[1][t] ELSE 0)
                 = 3 * Occurrences(TokensOf(job.title), t)
                   + 2 * Occurrences(TokensOf(job.company), t)
                   + 2 * Occurrences(TokensOf(job.location), t)
                   + Occurrences(TokensOf(job.jd_text), t)
                   + 2 * SumSeq([i \in 1..Len(kws) |->
                                   Occurrences(Tokenize(kws[i]), t)])

\* a fitted job with the token a in all five attributes: 3 + 2 + 2 + 2 + 2
C12_Witness ==
    /\ Returned("fit")
    /\ Len(last.jobs) = 1
    /\ \A i \in 1..Len(Fields) : Truthy(last.jobs[1][Fields[i]])
    /\ <<"a">> \in DOMAIN doc_freqs[1]
    /\ doc_freqs[1][<<"a">>] = 11

\* the last call was score on a fitted corpus with an index of a document
ScoredInRange ==
    /\ last.op = "score"
    /\ corpus.built
    /\ 0 <= last.doc_index
    /\ last.doc_index < Len(documents)

\* the tokens of the query, in order, that occur in the token list doc
Matching(query, doc) ==
    SelectSeq(Tokenize(query), LAMBDA t : t \in Range(doc))

\* C13: for an index of a document of the fitted corpus score is >= 0, and
\* 0 exactly when no token of the query is in the document; the tokens of
\* the query that are not in the document (in the vocabulary or not) add
\* nothing to the sum.
C13_ScoreSign ==
    ScoredInRange =>
        LET d == last.doc_index + 1
        IN /\ ~last.raised
           /\ last.value >= 0
           /\ last.value = 0 <=> QueryTerms \cap Range(documents[d]) = {}
           /\ last.value = SumTerms(Matching(last.query, documents[d]), idf,
                                    doc_freqs[d], doc_lengths[d], avg_doc_len)

\* a positive score for a query with one token in the document and another
\* that only an earlier corpus had
C13_Witness ==
    /\ ScoredInRange
    /\ last.value > 0
    /\ \E t \in QueryTerms :
          /\ t \notin Range(documents[last.doc_index + 1])
          /\ t \notin CorpusTerms
          /\ t \in DOMAIN idf

\* C14: fit and rank leave the list they are given as it was: the caller's
\* reference names the same list, the list holds the same job references in
\* the same order, and every job in it has the attributes it had; the list
\* rank returns, sorted and sliced, is another object than the list given.
C14_InputUnchanged ==
    [][last'.op \in {"fit", "rank"} =>
          /\ caller'.input = caller.input
          /\ heap'[caller.input] = heap[caller.input]
          /\ \A k \in 1..Len(heap[caller.input].items) :
                heap'[heap[caller.input].items[k]]
                = heap[heap[caller.input].items[k]]
          /\ (last'.op = "rank" /\ ~last'.raised) =>
                /\ caller'.ranked \notin {0, caller.input}
                /\ heap'[caller'.ranked].holds = "tuple"
      ]_vars

\* two jobs ranked into the reverse of their input order and cut to one
C14_Witness ==
    /\ Returned("rank")
    /\ caller.ranked # 0
    /\ ~last.top_k.none
    /\ LET given == heap[caller.input].items
           ranking == heap[caller.ranked].items
       IN /\ Len(given) = 2
          /\ given[1] # given[2]
          /\ Len(ranking) = 1
          /\ ranking[1].job = given[2]
          /\ ranking[1].score > 0

\* C15: fit called again on the same jobs right after a completed fit
\* leaves avg_doc_len, idf (keys and values), doc_lengths, documents and
\* doc_freqs as the first call left them.
C15_FitIdempotent ==
    Returned("fit") =>
        LET again == Fit(Self, last.jobs)
        IN /\ ~again.raised
           /\ again.self.avg_doc_len = avg_doc_len
           /\ again.self.idf = idf
           /\ again.self.doc_lengths = doc_lengths
           /\ again.self.documents = documents
           /\ again.self.doc_freqs = doc_freqs

\* a completed fit of two jobs on a ranker whose idf also holds a term of
\* an earlier corpus
C15_Witness ==
    /\ Returned("fit")
    /\ Len(last.jobs) = 2
    /\ Len(documents) = 2
    /\ DOMAIN idf # CorpusTerms

\* a and b are the same job but for the term of the query, which a has in
\* its title and b has once in its jd_text
TitleVersusText(a, b, query) ==
    \E job \in BaseJobs, term \in PairTerms :
        /\ Tokenize(query) = <<term>>
        /\ a = TitleMatch(job, term)
        /\ b = TextMatch(job, term)

\* C16: of two documents of a corpus that differ only in that one has the
\* query term in its title and the other has it once in its jd_text, the one
\* with the title match scores strictly higher for that query.
C16_TitleOutweighsText ==
    Returned("rank") =>
        \A i, j \in 1..Len(last.ranking) :
            TitleVersusText(last.ranking[i].job, last.ranking[j].job,
                            last.query)
            => last.ranking[i].score > last.ranking[j].score

\* a ranked pair made from a job that holds the term already, the text match
\* given first and a third job in the corpus
C16_Witness ==
    /\ Returned("rank")
    /\ Len(last.jobs) = 3
    /\ TitleVersusText(last.jobs[2], last.jobs[1], last.query)
    /\ last.jobs[1] = TextMatch(JobB, <<"b">>)
    /\ last.ranking[1].idx = 1

\* what the loop of score adds for the term when the document holds it tf
\* times, everything else as in the last call
Contribution(tf) ==
    SumTerms(<<Term>>, [x \in {Term} |-> last.args.idfv], TermFreqs(tf),
             last.args.doc_len, last.args.avg)

\* C17: with the document length, the average length and the idf held
\* fixed, what a term adds to the score never decreases when its frequency
\* in the document increases.
C17_MonotoneInTf ==
    last.op = "term" =>
        /\ last.value = Contribution(last.args.tf)
        /\ \A more \in (last.args.tf + 1)..last.args.doc_len :
              Contribution(more) >= last.value

\* a term that the document holds, but not in every place, in a document
\* longer than the average: one more occurrence adds to the score
C17_Witness ==
    /\ last.op = "term"
    /\ last.args.tf >= 1
    /\ last.args.tf < last.args.doc_len
    /\ last.args.doc_len * last.args.avg.den > last.args.avg.num
    /\ last.value > 0
    /\ Contribution(last.args.tf + 1) > last.value

\* the job of entry e of the ranking holds a token of the last query
HasQueryToken(e) == QueryTerms \cap Range(DocTokens(e.job)) # {}

\* C18: in the list rank returns every job that holds a token of the query
\* has a score > 0 and comes before every job that holds none, whose score
\* is 0; for "Senior Python Engineer" and "Barista" asked for "python" the
\* first job is returned first.
C18_MatchesFirst ==
    Returned("rank") =>
        /\ \A i \in 1..Len(last.ranking) :
              IF HasQueryToken(last.ranking[i]) THEN last.ranking[i].score > 0
              ELSE last.ranking[i].score = 0
        /\ \A i, j \in 1..Len(last.ranking) :
              (HasQueryToken(last.ranking[i]) /\ ~HasQueryToken(last.ranking[j]))
              => i < j
        /\ (last.jobs = <<JobPython, JobBarista>>
            /\ last.query = <<"p", "y", "t", "h", "o", "n">>)
           => /\ last.ranking[1].idx = 0
              /\ last.ranking[1].score > 0
              /\ last.top_k.none =>
                    (Len(last.ranking) = 2 /\ last.ranking[2].score = 0)

\* "Barista" given before "Senior Python Engineer" and asked for "python",
\* on a ranker whose idf holds "python" from an earlier corpus as well
C18_Witness ==
    /\ Returned("rank")
    /\ last.jobs = <<JobBarista, JobPython>>
    /\ last.query = <<"p", "y", "t", "h", "o", "n">>
    /\ Len(last.ranking) = 2
    /\ last.ranking[1].idx = 1
    /\ last.ranking[1].score > 0
    /\ last.ranking[2].score = 0
    /\ <<"j", "a", "v", "a">> \notin DOMAIN idf
    /\ <<"c", "o", "f", "f", "e", "e">> \in DOMAIN idf

\* the last call was a fit, on its own or inside rank, that ran to its end
Fitted == last.op \in {"fit", "rank"} /\ ~last.raised

\* C19: after a completed fit on N jobs documents, doc_lengths and
\* doc_freqs have N entries each, and entry i of each describes the job at
\* position i of the input, whatever earlier fits had stored.
C19_IndexAligned ==
    Fitted =>
        /\ Len(documents) = Len(last.jobs)
        /\ Len(doc_lengths) = Len(last.jobs)
        /\ Len(doc_freqs) = Len(last.jobs)
        /\ \A i \in 1..Len(last.jobs) :
              LET tokens == DocTokens(last.jobs[i])
              IN /\ documents[i] = tokens
                 /\ doc_lengths[i] = Len(tokens)
                 /\ DOMAIN doc_freqs[i] = Range(tokens)
                 /\ \A t \in Range(tokens) :
                       doc_freqs[i][t] = Occurrences(tokens, t)

\* a completed fit of two different jobs, the longer document second
C19_Witness ==
    /\ Returned("fit")
    /\ Len(last.jobs) = 2
    /\ last.jobs[1] # last.jobs[2]
    /\ Len(documents) = 2
    /\ doc_lengths[1] < doc_lengths[2]

\* C20: after a completed fit, for every document i, doc_lengths[i] is the
\* length of documents[i], doc_freqs[i][t] is the number of occurrences of t
\* in documents[i] for every token t, and the counts of doc_freqs[i] sum to
\* doc_lengths[i].
C20_LengthsAndCounts ==
    Fitted =>
        \A i \in 1..Len(documents) :
            /\ doc_lengths[i] = Len(documents[i])
            /\ \A t \in CorpusTerms \cup DOMAIN doc_freqs[i] :
                  (IF t \in DOMAIN doc_freqs[i] THEN doc_freqs[i][t] ELSE 0)
                  = Occurrences(documents[i], t)
            /\ LET terms == DOMAIN doc_freqs[i]
                   order == CHOOSE f \in [1..Cardinality(terms) -> terms] :
                                Range(f) = terms
               IN SumSeq([k \in 1..Cardinality(terms) |->
                             doc_freqs[i][order[k]]]) = doc_lengths[i]

\* a completed fit with a document that holds one token three times, one
\* twice and one once, and a second document that lacks one of them
C20_Witness ==
    /\ Fitted
    /\ Len(documents) = 2
    /\ \E t, u, v \in DOMAIN doc_freqs[1] :
          /\ doc_freqs[1][t] = 3
          /\ doc_freqs[1][u] = 2
          /\ doc_freqs[1][v] = 1
          /\ u \notin DOMAIN doc_freqs[2]

\* the documents of the last fit that ran to its end
CompletedDocuments == IF corpus.built THEN TokenizeAll(corpus.jobs) ELSE <<>>

\* C21: a fit that aborts partway through its loop over the jobs leaves the
\* index as the last completed fit built it: documents, doc_lengths and
\* doc_freqs of equal length, all of that fit; a later score call does not
\* raise and reads a document together with its own term frequencies.
C21_FitAllOrNothing ==
    /\ (last.op = "fit" /\ last.raised) =>
          /\ documents = CompletedDocuments
          /\ doc_lengths = Lengths(CompletedDocuments)
          /\ doc_freqs = Counters(CompletedDocuments)
    /\ (last.op = "score" /\ 0 <= last.doc_index) =>
          /\ ~last.raised
          /\ last.doc_index < Len(documents) =>
                /\ doc_freqs[last.doc_index + 1]
                      = Counter(documents[last.doc_index + 1])
                /\ doc_lengths[last.doc_index + 1]
                      = Len(documents[last.doc_index + 1])

\* score(query, doc_index) on the index a completed fit of jobs builds
ScoreUnder(jobs, query, doc_index) ==
    Score(Fit(NewRanker, jobs).self, query, doc_index).value

\* C22: a score call that runs while another caller's fit is under way on
\* the same ranker does not raise, and what it returns is the score under
\* the corpus of a completed fit: the one fitted before or the one being
\* fitted.
C22_ScoreDuringFit ==
    \A t \in Threads :
        /\ th[t].error # "IndexError"
        /\ \A k \in 1..Len(th[t].scored) :
              \E u \in Threads :
                  th[t].scored[k].score
                  = ScoreUnder(th[u].jobs, th[t].query, th[t].scored[k].idx)

\* C23: without top_k the list rank returns for N jobs is a permutation of
\* the input: N entries, every input position once, and the score paired
\* with the job of position i is score(query, i) on the index fitted from
\* those jobs.
C23_RankIsPermutation ==
    (Returned("rank") /\ last.top_k.none) =>
        /\ Len(last.ranking) = Len(last.jobs)
        /\ \A i \in 0..(Len(last.jobs) - 1) :
              Cardinality({k \in 1..Len(last.ranking) :
                              last.ranking[k].idx = i}) = 1
        /\ \A k \in 1..Len(last.ranking) :
              /\ last.ranking[k].job = last.jobs[last.ranking[k].idx + 1]
              /\ last.ranking[k].score
                    = Score(Self, last.query, last.ranking[k].idx).value

\* two jobs with different scores above 0, returned in the reverse of their
\* input order, all of them kept
C23_Witness ==
    /\ Returned("rank")
    /\ last.top_k.none
    /\ Len(last.ranking) = 2
    /\ last.ranking[1].idx = 1
    /\ last.ranking[1].score > last.ranking[2].score
    /\ last.ranking[2].score > 0

\* the documents of the index that hold the term
Holding(t) == {i \in 1..Len(documents) : t \in Range(documents[i])}

\* C24: after a fit on N documents every term t of the corpus has a
\* document count that is the number of documents holding t and lies in
\* 1..N, so the argument of the logarithm, (2N + 2)/(2 docCount + 1), is
\* above 1 and idf[t] is above 0.
C24_IdfPositive ==
    Fitted =>
        \A t \in CorpusTerms :
            LET N == Len(documents)
                n == DocCount(doc_freqs, t)
            IN /\ n = Cardinality(Holding(t))
               /\ 1 <= n
               /\ n <= N
               /\ 2 * N + 2 > 2 * n + 1
               /\ idf[t] = IdfValue(N, n)
               /\ idf[t] > 0

\* a fit on two documents with a term that both of them hold, more than
\* once each: the document count is at its upper end N
C24_Witness ==
    /\ Fitted
    /\ Len(documents) = 2
    /\ \E t \in CorpusTerms :
          /\ Cardinality(Holding(t)) = 2
          /\ doc_freqs[1][t] > 1
          /\ doc_freqs[2][t] > 1

\* C25: within one fitted corpus idf is strictly decreasing in the document
\* count: a term in fewer documents has the larger idf, and terms in the
\* same number of documents have the same idf.
C25_IdfDecreasing ==
    Fitted =>
        \A t1, t2 \in CorpusTerms :
            /\ Cardinality(Holding(t1)) < Cardinality(Holding(t2))
                  => idf[t1] > idf[t2]
            /\ Cardinality(Holding(t1)) = Cardinality(Holding(t2))
                  => idf[t1] = idf[t2]

\* a corpus with a term in one document, and two different terms in two
C25_Witness ==
    /\ Fitted
    /\ \E t1, t2, t3 \in CorpusTerms :
          /\ t2 # t3
          /\ Cardinality(Holding(t1)) = 1
          /\ Cardinality(Holding(t2)) = 2
          /\ Cardinality(Holding(t3)) = 2

\* the last call was a score of a document the index holds
ScoredHeld ==
    /\ Returned("score")
    /\ 0 <= last.doc_index
    /\ last.doc_index < Len(documents)

\* the queries of RepeatQueries that hold the tokens of `query`, each as
\* often as `query` holds it, in any order
Reorderings(query) ==
    {other \in RepeatQueries :
        \A t \in Range(Tokenize(other)) \cup Range(Tokenize(query)) :
            Occurrences(Tokenize(other), t) = Occurrences(Tokenize(query), t)}

C27_AverageIsMean ==
    /\ Fitted =>
          /\ avg_doc_len.den > 0
          /\ Len(doc_lengths) = Len(documents)
          /\ Len(documents) > 0 =>
                avg_doc_len.num * Len(documents)
                = SumSeq(doc_lengths) * avg_doc_len.den
          /\ Len(documents) = 0 => avg_doc_len.num = 0
    /\ (last.op = "score" /\ avg_doc_len.num = 0) => ~last.raised

\* a fit of the empty list on a ranker that holds the idf of an earlier
\* corpus, whose average was above 0
C27_Witness ==
    /\ Returned("fit")
    /\ last.jobs = <<>>
    /\ documents = <<>>
    /\ avg_doc_len.num = 0
    /\ DOMAIN idf # {}

\* the heap and the caller's outcomes say what the variables of the ranker
\* and `last` say: the statements of fit, score and rank leave the ranker
\* that Fit, Score and Rank compute, and return what they return
ObjectsAgree ==
    /\ SelfView(heap) = Self
    /\ caller.got.raised = last.raised
    /\ last.op = "score" => caller.got.value = last.value
    /\ Returned("rank") =>
          LET ranking == heap[caller.ranked].items
          IN /\ Len(ranking) = Len(last.ranking)
             /\ \A k \in 1..Len(ranking) :
                   /\ ranking[k].score = last.ranking[k].score
                   /\ heap[ranking[k].job].attrs = last.ranking[k].job

\* C28: a score call leaves every object as it was: the ranker with its
\* k1, b and avg_doc_len, the lists documents, doc_lengths and doc_freqs,
\* the token lists and Counters in them, and idf; and a score call whose
\* arguments are those of a score call kept since the fit, whatever score
\* calls were made in between, returns what the kept call returned.
C28_ScoreLeavesIndex ==
    [][last'.op = "score" =>
          /\ heap' = heap
          /\ (/\ caller.pinned.set
              /\ last'.query = caller.pinned.query
              /\ last'.doc_index = caller.pinned.doc_index) =>
                /\ caller'.got.raised = caller.pinned.raised
                /\ caller'.got.value = caller.pinned.value
      ]_vars

\* a score above 0 on the first of two documents, returned again after
\* MaxOthers score calls with other arguments, for a query with a term that
\* has an idf and is not in the document
C28_Witness ==
    /\ Returned("score")
    /\ caller.pinned.set
    /\ caller.others = MaxOthers
    /\ last.query = caller.pinned.query
    /\ last.doc_index = caller.pinned.doc_index
    /\ last.doc_index = 0
    /\ Len(documents) = 2
    /\ caller.got.value > 0
    /\ \E t \in QueryTerms : t \in DOMAIN idf /\ t \notin DOMAIN doc_freqs[1]

\* C29: rank truncates only for a top_k above 0 and below N: with a top_k
\* that is 0 or negative it returns all N entries of the sorted ranking.
C29_NonPositiveTopKKeepsAll ==
    (Returned("rank") /\ ~last.top_k.none /\ last.top_k.k <= 0) =>
        /\ Len(last.ranking) = Len(last.jobs)
        /\ last.ranking = FullRanking

\* what rank(jobs, query) returns when nothing else uses the ranker
RankAlone(jobs, query) == Rank(NewRanker, jobs, query, NoTopK)

\* C4: two rank calls that run at the same time through one ranker each
\* complete without error and return the ranking they return when run alone.
C4_ConcurrentRankSafe ==
    \A t \in Threads :
        /\ th[t].pc # "raised"
        /\ th[t].pc = "done" =>
              th[t].ranking = RankAlone(th[t].jobs, th[t].query).ranking

====
